---- MODULE Spec2Model ----
(***************************************************************************)
(* A model of simeon's report generation (simeon/report/utilities.py).     *)
(*                                                                         *)
(* Python strings are sequences of one-character strings, so that split,   *)
(* replace, lstrip and startswith are computed the way str computes them.  *)
(* Python's None is the value None below.  A dict is a function whose      *)
(* DOMAIN is the set of its keys; dict keys are TLA+ strings.              *)
(***************************************************************************)
EXTENDS Integers, Sequences, FiniteSets, TLC

(***************************************************************************)
(* Bounds of the model.                                                    *)
(***************************************************************************)
\* the largest number of nodes of a course-structure document
MaxNodes == 4
\* the number of different keys of the records and schemas
NumKeys == 2
\* the largest number of successive calls on one record
MaxCalls == 2
\* the largest number of rows of the dumps of a directory, all dumps together
MaxRows == 2
\* the most paths given to batch_decrypt_files
MaxFiles == 4
\* the largest batch size given to batch_decrypt_files
MaxSize == 2
\* the workers of a ThreadPool: 10 in the program, scaled down so that tasks
\* queue behind busy workers within the other bounds
PoolSize == 2
\* the most members of the archive given to process_email_file
MaxMembers == 3
\* the most bytes of a member of the archive, the bytes zfh.read reads at
\* once (10485760 in the program) and the bytes the buffer of a file
\* object holds, scaled down together: a chunk is larger than the buffer
MaxBytes == 3
ChunkSize == 2
BufferSize == 1
\* the most directories (or archive entries) given to a function that runs
\* one task for each
MaxDirs == 3
\* the most jobs given to wait_for_bq_jobs
MaxJobs == 3
\* the most lines of forum.mongo
MaxLines == 2
\* the most nodes of a course structure that is one chain of nodes
MaxDepth == 3
\* the most archives in downloaded_files, and the most course directories
\* of an archive whose reports split_sql_files makes one after the other
MaxArchives == 2
MaxFolders == 2
\* split_sql_files gives an archive of that many course directories, or
\* more, to batch_user_info_combos
PoolThreshold == 10

(***************************************************************************)
(* Python values.                                                          *)
(***************************************************************************)
None == <<"None">>
EmptyStr == <<>>
EmptyDict == [k \in {} |-> EmptyStr]

\* truthiness of a str-or-None value (bool(x))
Truthy(x) == x # None /\ x # EmptyStr

(***************************************************************************)
(* str methods.                                                            *)
(***************************************************************************)
\* s.startswith(p)
StartsWith(s, p) == Len(s) >= Len(p) /\ SubSeq(s, 1, Len(p)) = p

\* sub in s
Contains(s, sub) ==
    \E i \in 0..(Len(s) - Len(sub)) : SubSeq(s, i + 1, i + Len(sub)) = sub

RECURSIVE SplitFrom(_, _, _, _)
SplitFrom(s, sep, maxsplit, cur) ==
    IF s = <<>> THEN <<cur>>
    ELSE IF maxsplit # 0 /\ StartsWith(s, sep)
         THEN <<cur>> \o SplitFrom(SubSeq(s, Len(sep) + 1, Len(s)), sep,
                                   maxsplit - 1, <<>>)
         ELSE SplitFrom(Tail(s), sep, maxsplit, cur \o <<Head(s)>>)

\* s.split(sep, maxsplit); maxsplit = -1 is s.split(sep)
Split(s, sep, maxsplit) == SplitFrom(s, sep, maxsplit, <<>>)

RECURSIVE Join(_, _)
\* sep.join(parts)
Join(parts, sep) ==
    IF parts = <<>> THEN <<>>
    ELSE IF Len(parts) = 1 THEN parts[1]
    ELSE parts[1] \o sep \o Join(Tail(parts), sep)

\* s.replace(old, new)
Replace(s, old, new) == Join(Split(s, old, -1), new)

RECURSIVE LStrip(_, _)
\* s.lstrip(chars): drops the leading characters that are in the set chars
LStrip(s, chars) ==
    IF s # <<>> /\ Head(s) \in chars THEN LStrip(Tail(s), chars) ELSE s

Last(seq) == seq[Len(seq)]

\* seq[:n]
Take(seq, n) == SubSeq(seq, 1, IF Len(seq) < n THEN Len(seq) ELSE n)

Range(seq) == {seq[i] : i \in 1..Len(seq)}

Reverse(seq) == [i \in 1..Len(seq) |-> seq[Len(seq) + 1 - i]]

(***************************************************************************)
(* String literals of the program and of the inputs.                       *)
(***************************************************************************)
I4X_PREFIX == <<"i", "4", "x", ":", "/", "/">>
I4X == <<"i", "4", "x", ":">>
COURSE_SLASH == <<"c", "o", "u", "r", "s", "e", "/">>
SPLIT_TEST == <<"s", "p", "l", "i", "t", "_", "t", "e", "s", "t">>
Course == <<"c", "o", "u", "r", "s", "e">>
Chapter == <<"c", "h", "a", "p", "t", "e", "r">>
Sequential == <<"s", "e", "q", "u", "e", "n", "t", "i", "a", "l">>
LegacyStem == <<"i", "4", "x", ":", "/", "/", "O", "/", "C", "/">>
ModernStem == <<"b", "l", "o", "c", "k", "-", "v", "1", ":", "O", "+", "C",
                "+", "R", "+", "t", "y", "p", "e", "@">>
ModernMid == <<"+", "b", "l", "o", "c", "k", "@">>
Digits == <<"1", "2", "3", "4", "5", "6", "7", "8", "9">>

(***************************************************************************)
(* State.                                                                  *)
(***************************************************************************)
VARIABLES
    \* make_course_axis
    structure,      \* the loaded course_structure-analytics.json, in dict order
    axis_pc,        \* position in make_course_axis
    root_block,     \* the block id of the root found, or None
    course_id,      \* course_from_block(root_block)
    data,           \* the list returned by process_course_structure
    chapter_mid,    \* the running chapter module id of the writing loop
    index,          \* the number of records written so far (enumerate(data, 1))
    zh,             \* the lines written to course_axis.json.gz, in order
    axis_file,      \* whether course_axis.json.gz has been created
    axis_exc,       \* the exception make_course_axis raised, or "none"
    \* check_record_schema and drop_extra_keys
    sc_record,      \* the record dict the calls mutate
    sc_schema,      \* the schema: a list of fields
    sc_coerce,      \* the coerce argument of check_record_schema
    sc_before,      \* the record as it was before the last call
    sc_ops,         \* the calls made so far, in order
    sc_exc,         \* the exception the last call raised, or "none"
    \* make_user_info_combo
    uic_dumps,      \* the SQL dumps of the directory: file name -> header, rows
    uic_schema,     \* the schema loaded from schema_user_info_combo.json
    users,          \* the dict users: map (user id -> record) and key order
    uic_pc,         \* position in make_user_info_combo
    uic_file,       \* the item of USER_INFO_COLS the merge loop is at
    uic_next,       \* the position in users.values() of the writing loop
    outcols,        \* the list of output columns
    uic_out,        \* the lines written to user_info_combo.json.gz, in order
    uic_exc,        \* the exception make_user_info_combo raised, or "none"
    \* the writing loops of the reports made from one tab-delimited dump
    tab_report,     \* the report being made
    tab_rows,       \* the rows of its dumps, as the reader yields them
    tab_next,       \* the position of the writing loop in tab_rows, or 0
    tab_out,        \* the lines written, in order
    \* batch_decrypt_files
    dec_files,      \* all_files
    dec_size,       \* size
    dec_tasks,      \* the tasks given to the pool, in order: batch and state
    dec_pc,         \* position in batch_decrypt_files
    dec_get,        \* the position in futures of the gathering loop
    dec_exc,        \* the batch whose error batch_decrypt_files raised, or 0
    \* process_email_file and decrypt_file
    em_members,     \* zf.infolist(): directory or file, and what gpg does
    em_next,        \* the position of the loop in em_members
    em_pc,          \* position in process_email_file
    em_calls,       \* the calls of decrypt_file so far: tool run, outcome
    em_read,        \* the bytes read so far from each member
    em_disk,        \* the bytes the file out holds
    em_buffer,      \* the bytes written to fh that its buffer still holds
    \* the functions that run one task per directory or archive entry
    bt_fn,          \* the function run
    bt_items,       \* dirnames (zf.namelist() in process_sql_archive)
    bt_tasks,       \* the tasks, in order: item, file written, state
    bt_pc,          \* position in the function
    bt_get,         \* the position of the gathering loop in the results
    bt_exc,         \* the task whose error the function raised, or 0
    bt_out,         \* the list out of process_sql_archive
    \* make_sql_tables
    tb_outcomes,    \* what each report generator does in the directory
    tb_next,        \* the position of the loop in reports
    tb_pc,          \* position in make_sql_tables
    tb_called,      \* the report generators called so far, in order
    tb_exc,         \* the exception make_sql_tables raised, or "none"
    \* wait_for_bq_jobs
    jb_jobs,        \* job_list: whether each job is done, at the server
    jb_done,        \* the counter done
    jb_pos,         \* the position of the for loop in job_list
    jb_pc,          \* position in wait_for_bq_jobs
    \* split_sql_files
    sp_files,       \* downloaded_files: what happens with each archive
    sp_no_decryption, \* parsed_args.no_decryption
    sp_next,        \* the position of the loop in downloaded_files
    sp_folder,      \* the position of the loop in dirnames
    sp_pc,          \* position in split_sql_files
    sp_msg,         \* msg: the replacement fields of the string
    sp_failed,      \* failed
    sp_attempted,   \* the archives given to process_sql_archive, in order
    sp_status,      \* the exit status of the command, or -1
    \* make_forum_table
    fo_lines,       \* the records of the lines of forum.mongo
    fo_next,        \* the position of the loop in the lines, or 0
    fo_out,         \* the records written to forum.json.gz, with their line
    fo_exc,         \* the exception make_forum_table raised, or "none"
    \* make_roles_table
    ro_dumps,       \* the rows of the two dumps, by name of the dump
    ro_order,       \* the order in which the set of file names is iterated
    ro_file,        \* index in ro_order of the dump being read
    ro_next,        \* index of the next row of that dump
    ro_data,        \* data, the records by user id
    ro_keys,        \* the keys of data in the order of their insertion
    ro_out,         \* the records written to the output
    ro_pc           \* position in make_roles_table

axisVars == <<structure, axis_pc, root_block, course_id, data, chapter_mid,
              index, zh, axis_file, axis_exc>>

schemaVars == <<sc_record, sc_schema, sc_coerce, sc_before, sc_ops, sc_exc>>

uicVars == <<uic_dumps, uic_schema, users, uic_pc, uic_file, uic_next,
             outcols, uic_out, uic_exc>>

tabVars == <<tab_report, tab_rows, tab_next, tab_out>>

decVars == <<dec_files, dec_size, dec_tasks, dec_pc, dec_get, dec_exc>>

emVars == <<em_members, em_next, em_pc, em_calls, em_read, em_disk,
            em_buffer>>

btVars == <<bt_fn, bt_items, bt_tasks, bt_pc, bt_get, bt_exc, bt_out>>

tbVars == <<tb_outcomes, tb_next, tb_pc, tb_called, tb_exc>>

jbVars == <<jb_jobs, jb_done, jb_pos, jb_pc>>

spVars == <<sp_files, sp_no_decryption, sp_next, sp_folder, sp_pc, sp_msg,
            sp_failed, sp_attempted, sp_status>>

foVars == <<fo_lines, fo_next, fo_out, fo_exc>>

roVars == <<ro_dumps, ro_order, ro_file, ro_next, ro_data, ro_keys, ro_out,
            ro_pc>>

vars == <<axisVars, schemaVars, uicVars, tabVars, decVars, emVars, btVars,
          tbVars, jbVars, spVars, foVars, roVars>>

\* what a function leaves alone: the state of the others
notAxis == <<schemaVars, uicVars, tabVars, decVars, emVars, btVars, tbVars,
          jbVars, spVars, foVars, roVars>>
notSchema == <<axisVars, uicVars, tabVars, decVars, emVars, btVars, tbVars,
          jbVars, spVars, foVars, roVars>>
notUic == <<axisVars, schemaVars, tabVars, decVars, emVars, btVars, tbVars,
          jbVars, spVars, foVars, roVars>>
notTab == <<axisVars, schemaVars, uicVars, decVars, emVars, btVars, tbVars,
          jbVars, spVars, foVars, roVars>>
notDec == <<axisVars, schemaVars, uicVars, tabVars, emVars, btVars, tbVars,
          jbVars, spVars, foVars, roVars>>
notEm == <<axisVars, schemaVars, uicVars, tabVars, decVars, btVars, tbVars,
          jbVars, spVars, foVars, roVars>>
notBt == <<axisVars, schemaVars, uicVars, tabVars, decVars, emVars, tbVars,
          jbVars, spVars, foVars, roVars>>
notTb == <<axisVars, schemaVars, uicVars, tabVars, decVars, emVars, btVars,
          jbVars, spVars, foVars, roVars>>
notJb == <<axisVars, schemaVars, uicVars, tabVars, decVars, emVars, btVars,
          tbVars, spVars, foVars, roVars>>
notSp == <<axisVars, schemaVars, uicVars, tabVars, decVars, emVars, btVars,
          tbVars, jbVars, foVars, roVars>>
notForum == <<axisVars, schemaVars, uicVars, tabVars, decVars, emVars, btVars,
          tbVars, jbVars, spVars, roVars>>
notRoles == <<axisVars, schemaVars, uicVars, tabVars, decVars, emVars, btVars,
          tbVars, jbVars, spVars, foVars>>

(***************************************************************************)
(* Block ids (simeon/report/utilities.py, course_from_block and            *)
(* module_from_block).                                                     *)
(***************************************************************************)
\* a faulty variant of course_from_block: the legacy id keeps its 'course/'
\* part and the modern id all its segments
course_from_block_whole(block) ==
    IF StartsWith(block, I4X_PREFIX)
    THEN Last(Split(block, <<"/", "/">>, -1))
    ELSE Join(Split(Last(Split(block, <<":">>, -1)), <<"+">>, 3), <<"/">>)

\* course_from_block(block)
course_from_block(block) ==
    IF StartsWith(block, I4X_PREFIX)
    THEN Replace(Last(Split(block, <<"/", "/">>, -1)), COURSE_SLASH, <<>>)
    ELSE Join(Take(Split(Last(Split(block, <<":">>, -1)), <<"+">>, 3), 3),
              <<"/">>)

\* module_from_block(block)
module_from_block(block) ==
    IF StartsWith(block, I4X_PREFIX)
    THEN LStrip(block, Range(I4X_PREFIX))
    ELSE LET segments == Split(Last(Split(block, <<":">>, -1)), <<"+">>, -1)
         IN  Join([i \in 1..Len(segments) |->
                      Last(Split(segments[i], <<"@">>, -1))], <<"/">>)

(***************************************************************************)
(* Course structure documents.  A document is the sequence of its          *)
(* (block id, node) items in dict order; a node has a category, a list of  *)
(* children, a metadata dict, and top, the dict of its other keys.  The    *)
(* value of metadata's graded is a boolean (bool('') is False).            *)
(***************************************************************************)
HasBlock(doc, block) == \E i \in 1..Len(doc) : doc[i].block = block

\* data.get(block, {}): the node, or a node without any key
Node(doc, block) ==
    IF HasBlock(doc, block)
    THEN doc[CHOOSE i \in 1..Len(doc) : doc[i].block = block]
    ELSE [block |-> block, category |-> EmptyStr, children |-> <<>>,
          metadata |-> EmptyDict, top |-> EmptyDict]

\* d.get(key, default)
Get(d, key, default) == IF key \in DOMAIN d THEN d[key] ELSE default

\* the separator of url names: '/' if start.startswith('i4x:') else '@'
Sep(start) == IF StartsWith(start, I4X) THEN <<"/">> ELSE <<"@">>

\* the item process_course_structure builds for the node start
AxisItem(doc, start, parent) ==
    LET record == Node(doc, start)
        sep == Sep(start)
        meta == record.metadata
        pmeta == IF parent = None THEN EmptyDict ELSE Node(doc, parent).metadata
        pcat == IF parent = None THEN EmptyStr ELSE Node(doc, parent).category
        url_name == Last(Split(start, sep, -1))
        pname == IF Truthy(parent) THEN Last(Split(parent, sep, -1)) ELSE None
        is_split == Contains(record.category, SPLIT_TEST)
                        \/ Contains(pcat, SPLIT_TEST)
    IN  [parent |-> pname,
         split_url_name |-> IF is_split
                            THEN IF Contains(start, SPLIT_TEST)
                                 THEN url_name ELSE pname
                            ELSE None,
         category |-> record.category,
         url_name |-> url_name,
         gformat |-> Get(meta, "format", Get(pmeta, "format", EmptyStr)),
         due |-> Get(meta, "due", Get(pmeta, "due", EmptyStr)),
         start |-> Get(meta, "start", Get(pmeta, "start", EmptyStr)),
         graded |-> Get(meta, "graded", Get(pmeta, "graded", FALSE)),
         is_split |-> is_split,
         module_id |-> module_from_block(start),
         weight |-> Get(meta, "weight", None)]

\* a faulty variant of process_course_structure: the children come before
\* the node
RECURSIVE process_course_structure_post(_, _, _)

RECURSIVE process_course_structure(_, _, _)
RECURSIVE walk_children(_, _, _, _)

\* the loop over children: out.extend(process_course_structure(data, child,
\* start)) for the children from the i-th on
walk_children(doc, children, start, i) ==
    IF i > Len(children) THEN <<>>
    ELSE process_course_structure(doc, children[i], start)
            \o walk_children(doc, children, start, i + 1)

process_course_structure_post(doc, start, parent) ==
    walk_children(doc, Node(doc, start).children, start, 1)
        \o <<AxisItem(doc, start, parent)>>

\* process_course_structure(data, start, parent)
process_course_structure(doc, start, parent) ==
    <<AxisItem(doc, start, parent)>>
        \o walk_children(doc, Node(doc, start).children, start, 1)

(***************************************************************************)
(* The documents make_course_axis is run on: every tree of at most         *)
(* MaxNodes nodes, the first node its root; the root is a course node or   *)
(* (a document without course node) a sequential; the other nodes are      *)
(* chapters or sequentials; block ids are legacy or modern.                *)
(***************************************************************************)
Formats == {"legacy", "modern"}

\* the block id of node i
Block(fmt, cat, i) ==
    IF fmt = "legacy"
    THEN LegacyStem \o cat \o <<"/", "n", Digits[i]>>
    ELSE ModernStem \o cat \o ModernMid \o <<"n", Digits[i]>>

\* the node ids 1..n as a sequence, first to last or (rev) last to first
Ids(n, rev) == IF rev THEN [i \in 1..n |-> n + 1 - i] ELSE [i \in 1..n |-> i]

\* the document of the tree par (par[i] is the parent of node i > 1)
Doc(n, par, cats, metas, fmt, rev) ==
    LET blk(i) == Block(fmt, cats[i], i)
        kids(i) == LET IsKid(j) == j > 1 /\ par[j] = i
                       ks == SelectSeq(Ids(n, rev), IsKid)
                   IN  [k \in 1..Len(ks) |-> blk(ks[k])]
        order == Ids(n, rev)
    IN  [k \in 1..n |->
            [block |-> blk(order[k]), category |-> cats[order[k]],
             children |-> kids(order[k]), metadata |-> metas[order[k]],
             top |-> EmptyDict]]

Trees(n) == {par \in [2..n -> 1..n] : \A i \in 2..n : par[i] < i}

Categories(n) ==
    {cats \in [1..n -> {Course, Chapter, Sequential}] :
        /\ cats[1] \in {Course, Sequential}
        /\ \A i \in 2..n : cats[i] \in {Chapter, Sequential}}

AxisIdle ==
    /\ structure = <<>>
    /\ axis_pc = "idle"
    /\ root_block = None
    /\ course_id = None
    /\ data = <<>>
    /\ chapter_mid = None
    /\ index = 0
    /\ zh = <<>>
    /\ axis_file = FALSE
    /\ axis_exc = "none"

SchemaIdle ==
    /\ sc_record = EmptyDict
    /\ sc_schema = <<>>
    /\ sc_coerce = TRUE
    /\ sc_before = EmptyDict
    /\ sc_ops = <<>>
    /\ sc_exc = "none"

UicIdle ==
    /\ uic_dumps = EmptyDict
    /\ uic_schema = <<>>
    /\ users = [map |-> EmptyDict, order |-> <<>>]
    /\ uic_pc = "idle"
    /\ uic_file = 0
    /\ uic_next = 0
    /\ outcols = <<>>
    /\ uic_out = <<>>
    /\ uic_exc = "none"

TabIdle ==
    /\ tab_report = "none"
    /\ tab_rows = <<>>
    /\ tab_next = 0
    /\ tab_out = <<>>

DecIdle ==
    /\ dec_files = <<>>
    /\ dec_size = 0
    /\ dec_tasks = <<>>
    /\ dec_pc = "idle"
    /\ dec_get = 0
    /\ dec_exc = 0

EmIdle ==
    /\ em_members = <<>>
    /\ em_next = 0
    /\ em_pc = "idle"
    /\ em_calls = <<>>
    /\ em_read = <<>>
    /\ em_disk = 0
    /\ em_buffer = 0

BtIdle ==
    /\ bt_fn = "none"
    /\ bt_items = <<>>
    /\ bt_tasks = <<>>
    /\ bt_pc = "idle"
    /\ bt_get = 0
    /\ bt_exc = 0
    /\ bt_out = <<>>

TbIdle ==
    /\ tb_outcomes = <<>>
    /\ tb_next = 0
    /\ tb_pc = "idle"
    /\ tb_called = <<>>
    /\ tb_exc = "none"

JbIdle ==
    /\ jb_jobs = <<>>
    /\ jb_done = 0
    /\ jb_pos = 0
    /\ jb_pc = "idle"

SpIdle ==
    /\ sp_files = <<>>
    /\ sp_no_decryption = FALSE
    /\ sp_next = 0
    /\ sp_folder = 0
    /\ sp_pc = "idle"
    /\ sp_msg = {}
    /\ sp_failed = FALSE
    /\ sp_attempted = <<>>
    /\ sp_status = -1

ForumIdle ==
    /\ fo_lines = <<>>
    /\ fo_next = 0
    /\ fo_out = <<>>
    /\ fo_exc = "none"

RolesIdle ==
    /\ ro_dumps = <<>>
    /\ ro_order = <<>>
    /\ ro_file = 0
    /\ ro_next = 0
    /\ ro_data = <<>>
    /\ ro_keys = <<>>
    /\ ro_out = <<>>
    /\ ro_pc = "idle"

\* every function but the one that is run has not been called
OthersIdle(run) ==
    /\ IF run = "axis" THEN TRUE ELSE AxisIdle
    /\ IF run = "schema" THEN TRUE ELSE SchemaIdle
    /\ IF run = "uic" THEN TRUE ELSE UicIdle
    /\ IF run = "tab" THEN TRUE ELSE TabIdle
    /\ IF run = "dec" THEN TRUE ELSE DecIdle
    /\ IF run = "em" THEN TRUE ELSE EmIdle
    /\ IF run = "bt" THEN TRUE ELSE BtIdle
    /\ IF run = "tb" THEN TRUE ELSE TbIdle
    /\ IF run = "jb" THEN TRUE ELSE JbIdle
    /\ IF run = "sp" THEN TRUE ELSE SpIdle
    /\ IF run = "fo" THEN TRUE ELSE ForumIdle
    /\ IF run = "ro" THEN TRUE ELSE RolesIdle

AxisInit ==
    /\ OthersIdle("axis")
    /\ \E n \in 1..MaxNodes, fmt \in Formats, rev \in BOOLEAN :
         \E par \in Trees(n), cats \in Categories(n) :
            structure = Doc(n, par, cats, [i \in 1..n |-> EmptyDict], fmt, rev)
    /\ axis_pc = "load"
    /\ root_block = None
    /\ course_id = None
    /\ data = <<>>
    /\ chapter_mid = None
    /\ index = 0
    /\ zh = <<>>
    /\ axis_file = FALSE
    /\ axis_exc = "none"

(***************************************************************************)
(* make_course_axis.                                                       *)
(***************************************************************************)
\* the first item of structure.items() whose category is 'course', or 0
FirstCourse(doc) ==
    LET found == {i \in 1..Len(doc) : doc[i].category = Course}
    IN  IF found = {} THEN 0
        ELSE CHOOSE i \in found : \A j \in found : i <= j

\* the search of the root block; BadSQLFileException when there is none
AxisLoad ==
    /\ axis_pc = "load"
    /\ LET i == FirstCourse(structure)
       IN  IF i = 0 \/ ~Truthy(structure[i].block)
           THEN /\ axis_exc' = "BadSQLFileException"
                /\ axis_pc' = "raised"
                /\ UNCHANGED root_block
           ELSE /\ root_block' = structure[i].block
                /\ axis_pc' = "found"
                /\ UNCHANGED axis_exc
    /\ UNCHANGED <<structure, course_id, data, chapter_mid, index, zh,
                   axis_file>>
    /\ UNCHANGED notAxis

\* course_from_block, process_course_structure, and gzip.open(outname, 'wt')
AxisTraverse ==
    /\ axis_pc = "found"
    /\ course_id' = course_from_block(root_block)
    /\ data' = process_course_structure(structure, root_block, None)
    /\ axis_file' = TRUE
    /\ chapter_mid' = None
    /\ index' = 0
    /\ axis_pc' = "writing"
    /\ UNCHANGED <<structure, root_block, zh, axis_exc>>
    /\ UNCHANGED notAxis

\* a faulty variant of NextChapterMid: a record that is no chapter resets it
NextChapterMidReset(record, mid) ==
    IF record.category = Chapter THEN record.module_id ELSE None

\* chapter_mid after the record: a chapter record sets it
NextChapterMid(record, mid) ==
    IF record.category = Chapter THEN record.module_id ELSE mid

\* a faulty variant of RecordIndex: enumerate(data)
RecordIndexFromZero(i) == i - 1

\* the index of the i-th record of the loop: enumerate(data, 1)
RecordIndex(i) == i

\* root_val.get(key)
RootGet(doc, root, key) == Get(Node(doc, root).top, key, None)

\* the record as written: course_id, chapter_mid and index added, due and
\* start filled from the root for a record with a grading format
AxisRecord(record, cid, mid, i, doc, root) ==
    LET fill == Truthy(record.gformat)
    IN  [parent |-> record.parent,
         split_url_name |-> record.split_url_name,
         category |-> record.category,
         url_name |-> record.url_name,
         gformat |-> record.gformat,
         due |-> IF fill /\ ~Truthy(record.due)
                 THEN RootGet(doc, root, "end") ELSE record.due,
         start |-> IF fill /\ ~Truthy(record.start)
                   THEN RootGet(doc, root, "start") ELSE record.start,
         graded |-> record.graded,
         is_split |-> record.is_split,
         module_id |-> record.module_id,
         weight |-> record.weight,
         course_id |-> cid,
         chapter_mid |-> mid,
         index |-> i]

\* one iteration of the loop over enumerate(data, 1)
AxisWrite ==
    /\ axis_pc = "writing"
    /\ index < Len(data)
    /\ LET record == data[index + 1]
           mid == NextChapterMid(record, chapter_mid)
       IN  /\ chapter_mid' = mid
           /\ zh' = Append(zh, AxisRecord(record, course_id, mid,
                                          RecordIndex(index + 1), structure,
                                          root_block))
    /\ index' = index + 1
    /\ UNCHANGED <<structure, axis_pc, root_block, course_id, data,
                   axis_file, axis_exc>>
    /\ UNCHANGED notAxis

\* the end of the loop: the file is closed
AxisClose ==
    /\ axis_pc = "writing"
    /\ index = Len(data)
    /\ axis_pc' = "done"
    /\ UNCHANGED <<structure, root_block, course_id, data, chapter_mid,
                   index, zh, axis_file, axis_exc>>
    /\ UNCHANGED notAxis

AxisNext == AxisLoad \/ AxisTraverse \/ AxisWrite \/ AxisClose

SpecAxis == AxisInit /\ [][AxisNext]_vars

(***************************************************************************)
(* make_course_axis on documents with metadata: one chain of at most       *)
(* MaxDepth nodes (node 1 the root, node i + 1 the only child of node i).  *)
(* The root is a course node, a node of another category (a document       *)
(* without course node), or a course node whose block id is the empty      *)
(* string; the other nodes are sequentials or split tests, and the name    *)
(* of a node may hold the text 'split_test'.  The metadata of a node has   *)
(* no key, the keys format and due, or the five keys; its values bear the  *)
(* number of the node.                                                     *)
(***************************************************************************)
MetaKinds == {"none", "some", "all"}

MetadataOf(kind, i) ==
    LET v(c) == <<c, Digits[i]>>
        all == [k \in {"format", "due", "start", "weight", "graded"} |->
                    CASE k = "format" -> v("f")
                      [] k = "due" -> v("d")
                      [] k = "start" -> v("s")
                      [] k = "weight" -> v("w")
                      [] OTHER -> i % 2 = 1]
    IN  CASE kind = "none" -> EmptyDict
          [] kind = "some" -> [k \in {"format", "due"} |-> all[k]]
          [] OTHER -> all

\* the organisation of the course: 'O', or a name whose first characters
\* are among those of 'i4x://'
Orgs == {<<"O">>, <<"i", "x", "4">>}

\* the block id of node i: its format, organisation, category and name
MetaBlock(fmt, org, cat, marked, i) ==
    LET name == (IF marked THEN SPLIT_TEST ELSE <<"n">>) \o <<Digits[i]>>
    IN  IF fmt = "legacy"
        THEN I4X_PREFIX \o org \o <<"/", "C", "/">> \o cat \o <<"/">> \o name
        ELSE <<"b", "l", "o", "c", "k", "-", "v", "1", ":">> \o org
                \o <<"+", "C", "+", "R", "+", "t", "y", "p", "e", "@">> \o cat
                \o ModernMid \o name

RootKinds == {"course", "no course", "empty id"}

\* the chain of n nodes
MetaDoc(n, fmt, org, root, cats, marks, kinds) ==
    LET cat(i) == IF i > 1 THEN cats[i]
                  ELSE IF root = "no course" THEN Sequential ELSE Course
        blk(i) == IF i = 1 /\ root = "empty id" THEN EmptyStr
                  ELSE MetaBlock(fmt, org, cat(i), marks[i], i)
    IN  [i \in 1..n |->
            [block |-> blk(i), category |-> cat(i),
             children |-> IF i < n THEN <<blk(i + 1)>> ELSE <<>>,
             metadata |-> MetadataOf(kinds[i], i),
             top |-> EmptyDict]]

AxisMetaInit ==
    /\ OthersIdle("axis")
    /\ \E n \in 1..MaxDepth, fmt \in Formats, org \in Orgs,
          root \in RootKinds :
         \E cats \in [1..n -> {Sequential, SPLIT_TEST}],
            marks \in [1..n -> BOOLEAN], kinds \in [1..n -> MetaKinds] :
            /\ cats[1] = Sequential
            /\ ~marks[1]
            /\ structure = MetaDoc(n, fmt, org, root, cats, marks, kinds)
    /\ axis_pc = "load"
    /\ root_block = None
    /\ course_id = None
    /\ data = <<>>
    /\ chapter_mid = None
    /\ index = 0
    /\ zh = <<>>
    /\ axis_file = FALSE
    /\ axis_exc = "none"

SpecAxisMeta == AxisMetaInit /\ [][AxisNext]_vars

(***************************************************************************)
(* Records and schemas.  A value is a str, a dict, a list or None, tagged  *)
(* by its type.  In the records enumerated below keys and field names are  *)
(* one character long, so that the name of a field is also the str that    *)
(* Python's `in` looks for in a str value.  A schema is a list of fields;  *)
(* the empty fields of a field that is no RECORD stand for its missing     *)
(* 'fields' key (None and [] are both false for `if not schema`).          *)
(***************************************************************************)
Str(s) == [t |-> "str", s |-> s]
Dict(d) == [t |-> "dict", d |-> d]
List(l) == [t |-> "list", l |-> l]
NoneValue == [t |-> "none"]

IsDict(v) == v.t = "dict"

Leaf(name) == [name |-> name, field_type |-> "STRING", fields |-> <<>>]
RecordField(name, fields) ==
    [name |-> name, field_type |-> "RECORD", fields |-> fields]

\* (f.get('name') for f in schema)
FieldNames(schema) == {schema[i].name : i \in 1..Len(schema)}

\* d with d[key] = value
Put(d, key, value) ==
    [k \in DOMAIN d \cup {key} |-> IF k = key THEN value ELSE d[k]]

\* d after del d[key]
Del(d, key) == [k \in DOMAIN d \ {key} |-> d[k]]

\* the outcome of a call: the record as the call leaves it, and the
\* exception it raised, if any
Outcome(value, exc) == [value |-> value, exc |-> exc]

\* a faulty variant of check_fields: the loop ends after the first field it set
RECURSIVE check_fields_once(_, _, _, _)

RECURSIVE check_fields(_, _, _, _)

check_fields_once(record, schema, coerce, i) ==
    IF i > Len(schema) THEN Outcome(record, "none")
    ELSE
        LET field == schema[i]
            name == field.name
        IN  IF field.field_type # "RECORD"
            THEN IF IsDict(record) /\ name \notin DOMAIN record.d
                 THEN IF ~coerce
                      THEN Outcome(record, "MissingSchemaException")
                      ELSE Outcome(Dict(Put(record.d, name, Str(EmptyStr))),
                                   "none")
                 ELSE check_fields(record, schema, coerce, i + 1)
            ELSE check_fields(record, schema, coerce, i + 1)

\* the loop of check_record_schema from the i-th field of schema on.  The
\* dict is mutated in place: what was set before an exception stays set.
check_fields(record, schema, coerce, i) ==
    IF i > Len(schema) THEN Outcome(record, "none")
    ELSE
        LET field == schema[i]
            name == field.name
        IN  IF field.field_type # "RECORD"
            THEN \* field.get('name') not in record
                 CASE record.t = "none" -> Outcome(record, "TypeError")
                   [] record.t = "str" ->
                        IF Contains(record.s, <<name>>)
                        THEN check_fields(record, schema, coerce, i + 1)
                        ELSE IF ~coerce
                             THEN Outcome(record, "MissingSchemaException")
                             \* record[name] = '' on a str
                             ELSE Outcome(record, "TypeError")
                   [] record.t = "dict" ->
                        IF name \in DOMAIN record.d
                        THEN check_fields(record, schema, coerce, i + 1)
                        ELSE IF ~coerce
                             THEN Outcome(record, "MissingSchemaException")
                             ELSE check_fields(
                                    Dict(Put(record.d, name, Str(EmptyStr))),
                                    schema, coerce, i + 1)
            ELSE \* subrecord = record.get(field.get('name'), {})
                 IF ~IsDict(record) THEN Outcome(record, "AttributeError")
                 ELSE
                    LET held == name \in DOMAIN record.d
                        subrecord == IF held THEN record.d[name]
                                     ELSE Dict(EmptyDict)
                        sub == check_fields(subrecord, field.fields, coerce, 1)
                        \* the dict made by the default of get is not put
                        \* into record: only a subrecord record holds is
                        \* seen to change
                        after == IF held
                                 THEN Dict(Put(record.d, name, sub.value))
                                 ELSE record
                    IN  IF sub.exc # "none" THEN Outcome(after, sub.exc)
                        ELSE check_fields(after, schema, coerce, i + 1)

\* check_record_schema(record, schema, coerce)
check_record_schema(record, schema, coerce) ==
    check_fields(record, schema, coerce, 1)

\* a faulty variant of drop_keys: the subrecord is pruned against the schema of
\* the record that holds it
RECURSIVE drop_keys_same_schema(_, _, _)

\* a faulty variant of drop_keys: a subrecord is not pruned
RECURSIVE drop_keys_flat(_, _, _)

RECURSIVE drop_keys(_, _, _)

\* drop_extra_keys(record, schema).  For a list, list(record) is its
\* elements, and del record[k] with a str k raises TypeError before
\* anything is removed.
drop_extra_keys(record, schema) ==
    IF schema = <<>> THEN Outcome(record, "none")
    ELSE IF record.t = "list"
    THEN IF Range(record.l) \subseteq FieldNames(schema)
         THEN Outcome(record, "none")
         ELSE Outcome(record, "TypeError")
    ELSE Outcome(drop_keys(record, schema, DOMAIN record.d), "none")

drop_keys_same_schema(record, schema, keys) ==
    IF keys = {} THEN record
    ELSE
        LET k == CHOOSE x \in keys : TRUE
            rest == keys \ {k}
        IN  IF k \notin FieldNames(schema)
            THEN drop_keys(Dict(Del(record.d, k)), schema, rest)
            ELSE IF IsDict(record) /\ IsDict(record.d[k])
            THEN drop_keys(
                    Dict(Put(record.d, k,
                             drop_extra_keys(record.d[k], schema).value)),
                    schema, rest)
            ELSE drop_keys(record, schema, rest)

drop_keys_flat(record, schema, keys) ==
    IF keys = {} THEN record
    ELSE
        LET k == CHOOSE x \in keys : TRUE
            rest == keys \ {k}
        IN  IF k \notin FieldNames(schema)
            THEN drop_keys(Dict(Del(record.d, k)), schema, rest)
            ELSE drop_keys(record, schema, rest)

\* the loop of drop_extra_keys over keys, the keys of list(record) not yet
\* visited; the keys are distinct and the visit of one key touches no
\* other, so the order of the visits does not show in the result
drop_keys(record, schema, keys) ==
    IF keys = {} THEN record
    ELSE
        LET k == CHOOSE x \in keys : TRUE
            rest == keys \ {k}
        IN  IF k \notin FieldNames(schema)
            THEN drop_keys(Dict(Del(record.d, k)), schema, rest)
            ELSE IF IsDict(record) /\ IsDict(record.d[k])
            THEN LET target == schema[CHOOSE i \in 1..Len(schema) :
                                    /\ schema[i].name = k
                                    /\ \A j \in 1..(i - 1) :
                                            schema[j].name # k]
                     subfields == target.fields
                 IN  drop_keys(
                        Dict(Put(record.d, k,
                                 drop_extra_keys(record.d[k],
                                                 subfields).value)),
                        schema, rest)
            ELSE drop_keys(record, schema, rest)

(***************************************************************************)
(* The records and schemas the two functions are run on.  Keys are the     *)
(* first NumKeys of a, b, c.  Only the key a holds a nested value (a dict  *)
(* of str values, a str or None) or names a RECORD field (of STRING        *)
(* fields, none included); the other keys hold a str and name STRING       *)
(* fields.  The fields of a schema are in the order of their names or in   *)
(* the reverse order.                                                      *)
(***************************************************************************)
KeyList == <<"a", "b", "c", "d">>
Keys == {KeyList[i] : i \in 1..NumKeys}
NestKey == "a"
StrV == <<"v">>

\* the dicts of str values
FlatDicts == {[k \in ks |-> Str(StrV)] : ks \in SUBSET Keys}

\* the values the key k holds
ValuesOf(k) ==
    IF k = NestKey
    THEN {Str(StrV), Str(<<"b">>), NoneValue} \cup {Dict(d) : d \in FlatDicts}
    ELSE {Str(StrV)}

InputRecords ==
    UNION {{r \in [ks -> UNION {ValuesOf(k) : k \in ks}] :
                \A k \in ks : r[k] \in ValuesOf(k)} : ks \in SUBSET Keys}

\* the keys of ks in the order of KeyList
RECURSIVE Ordered(_, _)
Ordered(ks, i) ==
    IF i > Len(KeyList) THEN <<>>
    ELSE (IF KeyList[i] \in ks THEN <<KeyList[i]>> ELSE <<>>)
            \o Ordered(ks, i + 1)

\* the lists of STRING fields
FlatSchemas ==
    {LET names == Ordered(ks, 1)
     IN  [i \in 1..Len(names) |-> Leaf(names[i])] : ks \in SUBSET Keys}

\* the fields the name k may stand for
FieldsOf(k) ==
    IF k = NestKey
    THEN {Leaf(k)} \cup {RecordField(k, fs) : fs \in FlatSchemas}
    ELSE {Leaf(k)}

InputSchemas ==
    UNION {LET names == Ordered(ks, 1)
           IN  {sch \in [1..Len(names) -> UNION {FieldsOf(k) : k \in ks}] :
                    \A i \in 1..Len(names) : sch[i] \in FieldsOf(names[i])}
           : ks \in SUBSET Keys}

SchemaInit ==
    /\ OthersIdle("schema")
    /\ \E r \in InputRecords : sc_record = Dict(r) /\ sc_before = Dict(r)
    /\ \E sch \in InputSchemas, rev \in BOOLEAN :
            sc_schema = IF rev THEN Reverse(sch) ELSE sch
    /\ sc_coerce \in BOOLEAN
    /\ sc_ops = <<>>
    /\ sc_exc = "none"

\* a call of check_record_schema(record, schema, coerce)
CheckRecordSchema ==
    /\ Len(sc_ops) < MaxCalls
    /\ LET out == check_record_schema(sc_record, sc_schema, sc_coerce)
       IN  /\ sc_record' = out.value
           /\ sc_exc' = out.exc
    /\ sc_before' = sc_record
    /\ sc_ops' = Append(sc_ops, "check")
    /\ UNCHANGED <<sc_schema, sc_coerce>>
    /\ UNCHANGED notSchema

\* a call of drop_extra_keys(record, schema)
DropExtraKeys ==
    /\ Len(sc_ops) < MaxCalls
    /\ LET out == drop_extra_keys(sc_record, sc_schema)
       IN  /\ sc_record' = out.value
           /\ sc_exc' = out.exc
    /\ sc_before' = sc_record
    /\ sc_ops' = Append(sc_ops, "drop")
    /\ UNCHANGED <<sc_schema, sc_coerce>>
    /\ UNCHANGED notSchema

SchemaNext == CheckRecordSchema \/ DropExtraKeys

SpecSchema == SchemaInit /\ [][SchemaNext]_vars

(***************************************************************************)
(* make_user_info_combo.                                                   *)
(***************************************************************************)
\* USER_INFO_COLS, an OrderedDict: its items in order.  The prefix of the
\* first item is None; '' stands for it (both are false for `if prefix`).
USER_INFO_COLS ==
    << [fname |-> "auth_user-analytics.sql", prefix |-> "",
        cols |-> <<"user_id", "username", "email", "is_staff", "last_login",
                   "date_joined">>],
       [fname |-> "auth_userprofile-analytics.sql", prefix |-> "profile",
        cols |-> <<"profile_name", "profile_language", "profile_location",
                   "profile_meta", "profile_courseware", "profile_gender",
                   "profile_mailing_address", "profile_year_of_birth",
                   "profile_level_of_education", "profile_goals",
                   "profile_allow_certificate", "profile_country",
                   "profile_city">>],
       [fname |-> "student_courseenrollment-analytics.sql",
        prefix |-> "enrollment",
        cols |-> <<"enrollment_course_id", "enrollment_created",
                   "enrollment_is_active", "enrollment_mode">>],
       [fname |-> "certificates_generatedcertificate-analytics.sql",
        prefix |-> "certificate",
        cols |-> <<"certificate_id", "certificate_user_id",
                   "certificate_download_url", "certificate_grade",
                   "certificate_course_id", "certificate_key",
                   "certificate_distinction", "certificate_status",
                   "certificate_verify_uuid", "certificate_download_uuid",
                   "certificate_name", "certificate_created_date",
                   "certificate_modified_date", "certificate_error_reason",
                   "certificate_mode">>],
       [fname |-> "user_id_map-analytics.sql", prefix |-> "id_map",
        cols |-> <<"id_map_hash_id">>] >>

ADDED_COLS ==
    <<"edxinstructordash_Grade", "edxinstructordash_Grade_timestamp",
      "y1_anomalous">>

\* user_file and user_cols
UserFile == "auth_user-analytics.sql"
UserCols == USER_INFO_COLS[1].cols

RECURSIVE Concat(_)
\* reduce(lambda l, r: l + r, lists)
Concat(lists) ==
    IF lists = <<>> THEN <<>> ELSE Head(lists) \o Concat(Tail(lists))

\* outcols: the columns of all the items of USER_INFO_COLS, then ADDED_COLS
OutCols ==
    Concat([i \in 1..Len(USER_INFO_COLS) |-> USER_INFO_COLS[i].cols])
        \o ADDED_COLS

\* 'course_id' in k, for k a column of outcols
HasCourseId(k) == k \in {"enrollment_course_id", "certificate_course_id"}

\* 'certificate_grade' in k, for k a column of outcols
HasCertificateGrade(k) == k = "certificate_grade"

NULL == <<"N", "U", "L", "L">>
LowerNull == <<"n", "u", "l", "l">>
DecimalDigits == {"0", "1", "2", "3", "4", "5", "6", "7", "8", "9"}

\* str(float(val)) for the values of the dumps below: a val made of decimal
\* digits (without leading zero) parses; any other val is a ValueError, for
\* which the code takes ''
FloatStr(val) ==
    IF val # <<>> /\ Range(val) \subseteq DecimalDigits
    THEN val \o <<".", "0">>
    ELSE EmptyStr

\* downutils.get_sql_course_id(val): the part after the last ':' with '/'
\* for '+'
get_sql_course_id(val) ==
    Replace(Last(Split(val, <<":">>, -1)), <<"+">>, <<"/">>)

\* the header list of a dump as rfh.readline().split('\t') gives it: the
\* last name keeps the newline of the line
RawHeader(header) ==
    [i \in 1..Len(header) |->
        IF i = Len(header) THEN header[i] \o "\n" ELSE header[i]]

\* the fieldnames of the reader of the first dump: every name stripped
StrippedHeader(header) == header

\* the fieldnames of the reader of a dump with a prefix
PrefixedHeader(header, prefix) ==
    LET raw == RawHeader(header)
    IN  [i \in 1..Len(raw) |->
            IF prefix # "" THEN prefix \o "_" \o raw[i] ELSE raw[i]]

\* the row csv.DictReader yields: fieldnames[i] -> values[i]
DictRow(fieldnames, values) ==
    [k \in Range(fieldnames) |->
        values[CHOOSE i \in 1..Len(fieldnames) : fieldnames[i] = k]]

\* row.get(k)
RowGet(row, k) == Get(row, k, None)

\* users after users[uid] = record
SetUser(us, uid, record) ==
    [map |-> Put(us.map, uid, record),
     order |-> IF uid \in DOMAIN us.map THEN us.order
               ELSE Append(us.order, uid)]

RECURSIVE ReadUsers(_, _, _, _)
\* the loop over the rows of auth_user-analytics.sql, from the i-th row on
ReadUsers(us, incols, rows, i) ==
    IF i > Len(rows) THEN us
    ELSE LET row == DictRow(incols, rows[i])
             uid == RowGet(row, "id")
             full == Put(row, "user_id", uid)
         IN  ReadUsers(
                SetUser(us, uid, [k \in Range(UserCols) |-> RowGet(full, k)]),
                incols, rows, i + 1)

\* a faulty variant of MergeRow: the row of a user that users does not hold is
\* skipped
MergeRowKnownUsers(us, row, prefix, cols) ==
    LET uid_col == prefix \o "_user_id"
        full == IF uid_col \notin DOMAIN row
                THEN Put(row, uid_col, RowGet(row, prefix \o "_id"))
                ELSE row
        user_id == RowGet(full, uid_col)
    IN  IF user_id \notin DOMAIN us.map THEN us
        ELSE SetUser(us, user_id,
                [k \in DOMAIN us.map[user_id] \cup {"user_id"}
                            \cup Range(cols) |->
                    IF k \in Range(cols) THEN RowGet(full, k)
                    ELSE IF k = "user_id" THEN user_id
                    ELSE us.map[user_id][k]])

\* the body of the loop over the rows of a dump with a prefix: the record
\* of the user is fetched or made, its user_id set and the columns copied
MergeRow(us, row, prefix, cols) ==
    LET uid_col == prefix \o "_user_id"
        full == IF uid_col \notin DOMAIN row
                THEN Put(row, uid_col, RowGet(row, prefix \o "_id"))
                ELSE row
        user_id == RowGet(full, uid_col)
        target == Get(us.map, user_id, EmptyDict)
    IN  SetUser(us, user_id,
            [k \in DOMAIN target \cup {"user_id"} \cup Range(cols) |->
                IF k \in Range(cols) THEN RowGet(full, k)
                ELSE IF k = "user_id" THEN user_id
                ELSE target[k]])

RECURSIVE MergeRows(_, _, _, _, _, _)
\* the loop over the rows of a dump with a prefix, from the i-th row on
MergeRows(us, fieldnames, rows, prefix, cols, i) ==
    IF i > Len(rows) THEN us
    ELSE MergeRows(MergeRow(us, DictRow(fieldnames, rows[i]), prefix, cols),
                   fieldnames, rows, prefix, cols, i + 1)

\* the value of column k in the row written for record
OutValue(record, k) ==
    LET got == RowGet(record, k)
        val0 == IF Truthy(got) THEN got ELSE EmptyStr
        val1 == IF HasCourseId(k)
                THEN IF Truthy(val0) THEN get_sql_course_id(val0)
                     ELSE EmptyStr
                ELSE val0
        val2 == IF HasCertificateGrade(k) THEN FloatStr(val1) ELSE val1
    IN  IF val2 = NULL \/ val2 = LowerNull THEN EmptyStr ELSE val2

\* outrow
OutRow(record, columns) == [k \in Range(columns) |-> OutValue(record, k)]

\* all(not outrow.get(k) for k in id_cols)
NoId(outrow) ==
    \A k \in {"user_id", "certificate_user_id"} :
        ~Truthy(Get(outrow, k, None))

\* a dict of str values as a record of check_record_schema, and back
Tagged(outrow) == Dict([k \in DOMAIN outrow |-> Str(outrow[k])])
Untagged(record) == [k \in DOMAIN record.d |-> record.d[k].s]

(***************************************************************************)
(* The dumps make_user_info_combo is run on.  The columns of a dump are    *)
(* those of the edX export that the report reads, with the key columns.    *)
(* At most MaxRows rows in all, each the row of a user id (or of no id) in *)
(* one of the dumps.                                                       *)
(***************************************************************************)
DumpHeaders ==
    [f \in {USER_INFO_COLS[i].fname : i \in 1..Len(USER_INFO_COLS)} |->
        CASE f = "auth_user-analytics.sql" ->
                <<"id", "username", "email", "is_staff", "last_login",
                  "date_joined">>
          [] f = "auth_userprofile-analytics.sql" ->
                <<"id", "user_id", "name", "language", "location", "meta",
                  "courseware", "gender", "mailing_address", "year_of_birth",
                  "level_of_education", "goals", "allow_certificate",
                  "country", "city", "bio">>
          [] f = "student_courseenrollment-analytics.sql" ->
                <<"id", "user_id", "course_id", "created", "is_active",
                  "mode">>
          [] f = "certificates_generatedcertificate-analytics.sql" ->
                <<"id", "user_id", "download_url", "grade", "course_id",
                  "key", "distinction", "status", "verify_uuid",
                  "download_uuid", "name", "created_date", "modified_date",
                  "error_reason", "mode">>
          [] f = "user_id_map-analytics.sql" ->
                <<"hash_id", "id", "username">>]

UserIds == {<<"1">>, <<"2">>}
RowIds == UserIds \cup {EmptyStr}
CourseValue == <<"c", ":", "O", "+", "C", "+", "R">>

\* the column of a dump that holds the id of the user of the row
UserIdColumn(f) ==
    IF f \in {"auth_user-analytics.sql", "user_id_map-analytics.sql"}
    THEN "id" ELSE "user_id"

\* the row of user u in dump f
InputRow(f, u) ==
    [i \in 1..Len(DumpHeaders[f]) |->
        LET c == DumpHeaders[f][i]
        IN  CASE c = UserIdColumn(f) -> u
              [] c # UserIdColumn(f) /\ c = "id" -> <<"9">>
              [] c = "course_id" -> CourseValue
              [] c = "grade" -> <<"1">>
              [] OTHER -> <<"v">>]

\* the list of (dump, user id) rows, in the order of the lines
Mentions ==
    UNION {[1..n -> (DOMAIN DumpHeaders) \X RowIds] : n \in 0..MaxRows}

\* the dumps of the rows ms
Dumps(ms) ==
    [f \in DOMAIN DumpHeaders |->
        LET OfDump(m) == m[1] = f
            mine == SelectSeq(ms, OfDump)
        IN  [header |-> DumpHeaders[f],
             rows |-> [i \in 1..Len(mine) |-> InputRow(f, mine[i][2])]]]

\* a schema that declares every output column, as STRING fields
FullSchema == [i \in 1..Len(OutCols) |-> Leaf(OutCols[i])]

UicInit ==
    /\ OthersIdle("uic")
    /\ \E ms \in Mentions : uic_dumps = Dumps(ms)
    /\ uic_schema = FullSchema
    /\ users = [map |-> EmptyDict, order |-> <<>>]
    /\ uic_pc = "users"
    /\ uic_file = 1
    /\ uic_next = 1
    /\ outcols = <<>>
    /\ uic_out = <<>>
    /\ uic_exc = "none"

\* the loop over auth_user-analytics.sql
UicReadUsers ==
    /\ uic_pc = "users"
    /\ LET dump == uic_dumps[UserFile]
       IN  users' = ReadUsers(users, StrippedHeader(dump.header), dump.rows, 1)
    /\ uic_pc' = "merge"
    /\ UNCHANGED <<uic_dumps, uic_schema, uic_file, uic_next, outcols,
                   uic_out, uic_exc>>
    /\ UNCHANGED notUic

\* one iteration of the loop over USER_INFO_COLS.items(); after the last
\* one outcols is built and the output file opened
UicMergeFile ==
    /\ uic_pc = "merge"
    /\ uic_file <= Len(USER_INFO_COLS)
    /\ LET item == USER_INFO_COLS[uic_file]
           dump == uic_dumps[item.fname]
       IN  users' = IF item.fname = UserFile THEN users
                    ELSE MergeRows(users,
                                   PrefixedHeader(dump.header, item.prefix),
                                   dump.rows, item.prefix, item.cols, 1)
    /\ uic_file' = uic_file + 1
    /\ IF uic_file = Len(USER_INFO_COLS)
       THEN uic_pc' = "write" /\ outcols' = OutCols
       ELSE UNCHANGED <<uic_pc, outcols>>
    /\ UNCHANGED <<uic_dumps, uic_schema, uic_next, uic_out, uic_exc>>
    /\ UNCHANGED notUic

\* one iteration of the loop over users.values()
UicWriteRecord ==
    /\ uic_pc = "write"
    /\ uic_next <= Len(users.order)
    /\ LET record == users.map[users.order[uic_next]]
           outrow == OutRow(record, outcols)
           checked == check_record_schema(Tagged(outrow), uic_schema, TRUE)
           dropped == drop_extra_keys(List(outcols), uic_schema)
       IN  IF NoId(outrow)
           THEN UNCHANGED <<uic_pc, outcols, uic_out, uic_exc>>
           ELSE IF checked.exc # "none"
           THEN /\ uic_pc' = "raised"
                /\ uic_exc' = checked.exc
                /\ UNCHANGED <<outcols, uic_out>>
           ELSE IF dropped.exc # "none"
           THEN /\ uic_pc' = "raised"
                /\ uic_exc' = dropped.exc
                /\ UNCHANGED <<outcols, uic_out>>
           ELSE /\ outcols' = dropped.value.l
                /\ uic_out' = Append(uic_out, Untagged(checked.value))
                /\ UNCHANGED <<uic_pc, uic_exc>>
    /\ uic_next' = uic_next + 1
    /\ UNCHANGED <<uic_dumps, uic_schema, users, uic_file>>
    /\ UNCHANGED notUic

\* the end of the loop: the file is closed
UicClose ==
    /\ uic_pc = "write"
    /\ uic_next > Len(users.order)
    /\ uic_pc' = "done"
    /\ UNCHANGED <<uic_dumps, uic_schema, users, uic_file, uic_next, outcols,
                   uic_out, uic_exc>>
    /\ UNCHANGED notUic

UicNext == UicReadUsers \/ UicMergeFile \/ UicWriteRecord \/ UicClose

SpecUserInfo == UicInit /\ [][UicNext]_vars

\* schemas that are not empty: the full one, one that leaves out the last
\* output column, and one that declares user_id alone
UicSchemas ==
    {FullSchema, SubSeq(FullSchema, 1, Len(OutCols) - 1),
     <<Leaf("user_id")>>}

\* make_user_info_combo run with any of these schemas
UicSchemaInit ==
    /\ OthersIdle("uic")
    /\ \E ms \in Mentions : uic_dumps = Dumps(ms)
    /\ uic_schema \in UicSchemas
    /\ users = [map |-> EmptyDict, order |-> <<>>]
    /\ uic_pc = "users"
    /\ uic_file = 1
    /\ uic_next = 1
    /\ outcols = <<>>
    /\ uic_out = <<>>
    /\ uic_exc = "none"

SpecUserInfoSchema == UicSchemaInit /\ [][UicNext]_vars

(***************************************************************************)
(* The reports made from one tab-delimited dump: make_grades_persistent,   *)
(* make_student_module, and the writing loop of make_user_info_combo.  A   *)
(* row is the dict csv.DictReader yields (column -> str); a written value  *)
(* is a str, or None for JSON null.                                        *)
(***************************************************************************)
UpperCase == <<"A", "B", "C", "D", "E", "F", "G", "H", "I", "J", "K", "L",
               "M", "N", "O", "P", "Q", "R", "S", "T", "U", "V", "W", "X",
               "Y", "Z">>
LowerCase == <<"a", "b", "c", "d", "e", "f", "g", "h", "i", "j", "k", "l",
               "m", "n", "o", "p", "q", "r", "s", "t", "u", "v", "w", "x",
               "y", "z">>

\* str.lower()
Lower(s) ==
    [i \in 1..Len(s) |->
        IF \E j \in 1..Len(UpperCase) : UpperCase[j] = s[i]
        THEN LowerCase[CHOOSE j \in 1..Len(UpperCase) : UpperCase[j] = s[i]]
        ELSE s[i]]

\* 'course_id' in k, for k a column of the grades dumps
GradesHasCourseId(k) == k = "course_id"

\* the record make_grades_persistent writes for a row: the course id is
\* canonicalised, then a value equal to 'NULL' becomes None
grades_persistent_record(record) ==
    [k \in DOMAIN record |->
        LET val == IF GradesHasCourseId(k)
                   THEN get_sql_course_id(record[k])
                   ELSE record[k]
        IN  IF val = NULL THEN None ELSE val]

\* the record make_student_module writes for a row: v is the value read,
\* and a v whose lower case is 'null' becomes None whatever was set before
student_module_record(record) ==
    [k \in DOMAIN record |->
        LET v == record[k]
            v_or == IF Truthy(v) THEN v ELSE EmptyStr
            val == IF k = "course_id" THEN get_sql_course_id(v_or)
                   ELSE IF k = "module_id" THEN module_from_block(v_or)
                   ELSE v
        IN  IF Lower(v_or) = LowerNull THEN None ELSE val]

\* the record make_user_info_combo writes for a record of users
user_info_combo_record(record, schema) ==
    Untagged(check_record_schema(Tagged(OutRow(record, OutCols)),
                                 schema, TRUE).value)

\* whether the loop of make_user_info_combo goes on to the next record
\* without writing this one: the row has no id
user_info_combo_skips(record) == NoId(OutRow(record, OutCols))

(***************************************************************************)
(* The rows the reports are run on: the columns that the code tells apart  *)
(* and one more; every value is 'NULL', 'null' or a value of the column.   *)
(***************************************************************************)
TabReports == {"grades_persistent", "student_module", "user_info_combo"}

ModuleValue == ModernStem \o <<"p", "1">>

\* the dumps of a report and their columns (for user_info_combo, the keys
\* of a record of users)
TabColumns ==
    [f \in {"grades_persistentcoursegrade-analytics.sql",
            "grades_persistentsubsectiongrade-analytics.sql",
            "courseware_studentmodule-analytics.sql", "users"} |->
        CASE f = "grades_persistentcoursegrade-analytics.sql" ->
                <<"course_id", "letter_grade">>
          [] f = "grades_persistentsubsectiongrade-analytics.sql" ->
                <<"course_id", "usage_key">>
          [] f = "courseware_studentmodule-analytics.sql" ->
                <<"module_id", "course_id", "grade">>
          [] f = "users" ->
                <<"user_id", "enrollment_course_id", "certificate_grade",
                  "username">>]

TabFiles(report) ==
    CASE report = "grades_persistent" ->
            {"grades_persistentcoursegrade-analytics.sql",
             "grades_persistentsubsectiongrade-analytics.sql"}
      [] report = "student_module" ->
            {"courseware_studentmodule-analytics.sql"}
      [] report = "user_info_combo" -> {"users"}

\* the values a column takes
TabValues(k) ==
    CASE k \in {"course_id", "enrollment_course_id"} ->
            {NULL, LowerNull, CourseValue}
      [] k = "module_id" -> {NULL, LowerNull, ModuleValue}
      [] k = "user_id" -> {<<"1">>}
      [] k = "certificate_grade" -> {NULL, LowerNull, <<"1">>}
      [] OTHER -> {NULL, LowerNull, <<"v">>}

TabRowsOf(f) ==
    {[file |-> f, row |-> r] :
        r \in {r \in [Range(TabColumns[f]) -> {NULL, LowerNull, CourseValue,
                                               ModuleValue, <<"1">>, <<"v">>}] :
                    \A k \in DOMAIN r : r[k] \in TabValues(k)}}

\* at most MaxRows rows, those of the first dump before those of the second
TabInputs(report) ==
    LET pool == UNION {TabRowsOf(f) : f \in TabFiles(report)}
        InOrder(rows) ==
            \A i, j \in 1..Len(rows) :
                (i < j /\ rows[i].file # rows[j].file) =>
                    rows[i].file = "grades_persistentcoursegrade-analytics.sql"
    IN  {rows \in UNION {[1..n -> pool] : n \in 0..MaxRows} : InOrder(rows)}

TabInit ==
    /\ OthersIdle("tab")
    /\ tab_report \in TabReports
    /\ tab_rows \in TabInputs(tab_report)
    /\ tab_next = 1
    /\ tab_out = <<>>

\* one iteration of the loop over the rows of a dump (over users.values()
\* in make_user_info_combo): a line is written unless the record is skipped
TabWriteRecord ==
    /\ tab_report \in TabReports
    /\ tab_next \in 1..Len(tab_rows)
    /\ LET record == tab_rows[tab_next].row
           out == CASE tab_report = "grades_persistent" ->
                        grades_persistent_record(record)
                    [] tab_report = "student_module" ->
                        student_module_record(record)
                    [] tab_report = "user_info_combo" ->
                        user_info_combo_record(record, FullSchema)
           skip == tab_report = "user_info_combo"
                        /\ user_info_combo_skips(record)
       IN  tab_out' = IF skip THEN tab_out
                      ELSE Append(tab_out, [of |-> tab_next, row |-> out])
    /\ tab_next' = tab_next + 1
    /\ UNCHANGED <<tab_report, tab_rows>>
    /\ UNCHANGED notTab

\* the end of the loop: the output file is closed
TabClose ==
    /\ tab_report \in TabReports
    /\ tab_next = Len(tab_rows) + 1
    /\ tab_next' = 0
    /\ UNCHANGED <<tab_report, tab_rows, tab_out>>
    /\ UNCHANGED notTab

TabNext == TabWriteRecord \/ TabClose

SpecTab == TabInit /\ [][TabNext]_vars

(***************************************************************************)
(* Thread pools (multiprocessing.pool.ThreadPool, as the code uses it).    *)
(* The tasks of a pool are a sequence in the order of apply_async; a task  *)
(* is "queued" until a worker takes it, then "running", then "done" (it    *)
(* returned) or "failed" (it raised).  Leaving the with block terminates   *)
(* the pool: the queue is emptied, so a queued task is "dropped" and never *)
(* run; the worker threads are not joined, so a running task goes on.      *)
(***************************************************************************)
Task(work) == [work |-> work, st |-> "queued"]

Running(tasks) == {i \in 1..Len(tasks) : tasks[i].st = "running"}

Queued(tasks) == {i \in 1..Len(tasks) : tasks[i].st = "queued"}

Finished(tasks) == {i \in 1..Len(tasks) : tasks[i].st \in {"done", "failed"}}

\* the task a free worker takes: the head of the queue
NextQueued(tasks) == CHOOSE i \in Queued(tasks) : \A j \in Queued(tasks) : i <= j

\* a worker is free and the queue is not empty
CanStart(tasks) == Queued(tasks) # {} /\ Cardinality(Running(tasks)) < PoolSize

SetState(tasks, i, st) == [tasks EXCEPT ![i].st = st]

\* ThreadPool.__exit__: terminate()
pool_exit(tasks) ==
    [i \in 1..Len(tasks) |->
        IF tasks[i].st = "queued" THEN [tasks[i] EXCEPT !.st = "dropped"]
        ELSE tasks[i]]

(***************************************************************************)
(* batch_decrypt_files (simeon/download/sqls.py).                          *)
(***************************************************************************)
RECURSIVE batch_loop(_, _, _, _, _)
\* the loop of _batch_them from the i-th item on, with the bucket and the
\* batches yielded so far; after the loop a bucket that holds items is
\* yielded
batch_loop(items, size, i, bucket, yielded) ==
    IF i > Len(items)
    THEN IF bucket # <<>> THEN Append(yielded, bucket) ELSE yielded
    ELSE IF Len(bucket) = size
    THEN batch_loop(items, size, i + 1, <<items[i]>>, Append(yielded, bucket))
    ELSE batch_loop(items, size, i + 1, Append(bucket, items[i]), yielded)

\* a faulty variant of batch_them: the bucket left after the loop is not
\* yielded
batch_them_full_only(items, size) ==
    LET all == batch_loop(items, size, 1, <<>>, <<>>)
    IN  SubSeq(all, 1, Len(all) - 1)

\* list(_batch_them(items, size))
batch_them(items, size) == batch_loop(items, size, 1, <<>>, <<>>)

DecInit ==
    /\ OthersIdle("dec")
    /\ \E n \in 0..MaxFiles : dec_files = [i \in 1..n |-> i]
    /\ dec_size \in 1..MaxSize
    /\ dec_tasks = <<>>
    /\ dec_pc = "submit"
    /\ dec_get = 1
    /\ dec_exc = 0

\* one iteration of the loop over _batch_them: the batch is given to the
\* pool
DecSubmit ==
    /\ dec_pc = "submit"
    /\ LET batches == batch_them(dec_files, dec_size)
       IN  /\ Len(dec_tasks) < Len(batches)
           /\ dec_tasks' = Append(dec_tasks, Task(batches[Len(dec_tasks) + 1]))
    /\ UNCHANGED <<dec_files, dec_size, dec_pc, dec_get, dec_exc>>
    /\ UNCHANGED notDec

\* the generator is exhausted: the loop over futures begins
DecSubmitted ==
    /\ dec_pc = "submit"
    /\ Len(dec_tasks) = Len(batch_them(dec_files, dec_size))
    /\ dec_pc' = "gather"
    /\ UNCHANGED <<dec_files, dec_size, dec_tasks, dec_get, dec_exc>>
    /\ UNCHANGED notDec

\* a worker of the pool takes the next batch and calls decrypt_files
DecStart ==
    /\ dec_pc \in {"submit", "gather"}
    /\ CanStart(dec_tasks)
    /\ dec_tasks' = SetState(dec_tasks, NextQueued(dec_tasks), "running")
    /\ UNCHANGED <<dec_files, dec_size, dec_pc, dec_get, dec_exc>>
    /\ UNCHANGED notDec

\* decrypt_files returns for a batch, or raises; a worker thread that is
\* still at it when batch_decrypt_files has raised goes on to the end
DecFinish ==
    /\ \E i \in Running(dec_tasks), st \in {"done", "failed"} :
            dec_tasks' = SetState(dec_tasks, i, st)
    /\ UNCHANGED <<dec_files, dec_size, dec_pc, dec_get, dec_exc>>
    /\ UNCHANGED notDec

\* future.get() of the loop over futures: it returns when the batch is
\* done; when the batch failed it raises the error of the batch, which
\* leaves the with block
DecGet ==
    /\ dec_pc = "gather"
    /\ dec_get \in Finished(dec_tasks)
    /\ IF dec_tasks[dec_get].st = "done"
       THEN /\ dec_get' = dec_get + 1
            /\ UNCHANGED <<dec_tasks, dec_pc, dec_exc>>
       ELSE /\ dec_exc' = dec_get
            /\ dec_tasks' = pool_exit(dec_tasks)
            /\ dec_pc' = "raised"
            /\ UNCHANGED dec_get
    /\ UNCHANGED <<dec_files, dec_size>>
    /\ UNCHANGED notDec

\* the loop over futures is over: the with block is left and
\* batch_decrypt_files returns
DecReturn ==
    /\ dec_pc = "gather"
    /\ dec_get = Len(dec_tasks) + 1
    /\ dec_tasks' = pool_exit(dec_tasks)
    /\ dec_pc' = "returned"
    /\ UNCHANGED <<dec_files, dec_size, dec_get, dec_exc>>
    /\ UNCHANGED notDec

DecNext ==
    \/ DecSubmit
    \/ DecSubmitted
    \/ DecStart
    \/ DecFinish
    \/ DecGet
    \/ DecReturn

SpecDecrypt == DecInit /\ [][DecNext]_vars

(***************************************************************************)
(* decrypt_file and process_email_file (simeon/download/aws.py).  A run of *)
(* gpg either ends within the 60 seconds of proc.wait, with an exit code   *)
(* and what it wrote to stderr, or does not.                               *)
(***************************************************************************)
Whitespace == {" ", "\t", "\n"}

\* str.strip()
Strip(s) == Reverse(LStrip(Reverse(LStrip(s, Whitespace)), Whitespace))

FAILED_TO_DECRYPT == <<"F", "a", "i", "l", "e", "d", " ", "t", "o", " ",
                       "d", "e", "c", "r", "y", "p", "t", " ">>

\* decrypt_file(fname): whether it returned (True), or the exception it
\* raised and the message of the exception; proc.wait(timeout=60) raises
\* subprocess.TimeoutExpired itself when gpg has not ended
decrypt_file(fname, run) ==
    IF run.timed_out
    THEN [returned |-> FALSE, exc |-> "TimeoutExpired", text |-> EmptyStr]
    ELSE IF run.code # 0
    THEN [returned |-> FALSE, exc |-> "DecryptionError",
          text |-> FAILED_TO_DECRYPT \o fname \o <<":", " ">>
                        \o Strip(run.stderr)]
    ELSE [returned |-> TRUE, exc |-> "none", text |-> EmptyStr]

ExitCodes == 0..2

Diagnostics == {EmptyStr, <<"e", "\n">>}

\* what a run of gpg does
ToolRuns ==
    [timed_out : {FALSE}, code : ExitCodes, stderr : Diagnostics]
        \cup [timed_out : {TRUE}, code : {0}, stderr : Diagnostics]

\* the members of the archive: a directory entry, or a file of some
\* bytes (gpg is run after it has been copied)
Members ==
    [is_dir : {TRUE}, size : {0}, run : {CHOOSE r \in ToolRuns : TRUE}]
        \cup [is_dir : {FALSE}, size : 1..MaxBytes, run : ToolRuns]

\* the path process_email_file writes and decrypts
EmailOut == <<"o", ".", "c", "s", "v", ".", "g", "p", "g">>

\* fh.write(chunk) of n bytes on the file object open(out, 'wb'): the
\* bytes are kept in the buffer when they fit; otherwise the buffer is
\* written to the file, and then the chunk also when it is larger than
\* the buffer
buffered_write(disk, buffer, n) ==
    IF n <= BufferSize - buffer
    THEN [disk |-> disk, buffer |-> buffer + n]
    ELSE IF n > BufferSize
    THEN [disk |-> disk + buffer + n, buffer |-> 0]
    ELSE [disk |-> disk + buffer, buffer |-> n]

EmInit ==
    /\ OthersIdle("em")
    /\ em_members \in UNION {[1..n -> Members] : n \in 0..MaxMembers}
    /\ em_next = 1
    /\ em_pc = "members"
    /\ em_calls = <<>>
    /\ em_read = [i \in 1..Len(em_members) |-> 0]
    /\ em_disk = 0
    /\ em_buffer = 0

\* `if file_.filename.endswith('/'): continue`
EmSkip ==
    /\ em_pc = "members"
    /\ em_next \in 1..Len(em_members)
    /\ em_members[em_next].is_dir
    /\ em_next' = em_next + 1
    /\ UNCHANGED <<em_members, em_pc, em_calls, em_read, em_disk, em_buffer>>
    /\ UNCHANGED notEm

\* one iteration of `while True`: chunk = zfh.read(10485760), and
\* fh.write(chunk) unless the chunk is empty
EmCopy ==
    /\ em_pc = "members"
    /\ em_next \in 1..Len(em_members)
    /\ ~em_members[em_next].is_dir
    /\ LET left == em_members[em_next].size - em_read[em_next]
           chunk == IF left < ChunkSize THEN left ELSE ChunkSize
           fh == buffered_write(em_disk, em_buffer, chunk)
       IN  IF chunk = 0
           THEN /\ em_pc' = "decrypt"
                /\ UNCHANGED <<em_read, em_disk, em_buffer>>
           ELSE /\ em_read' = [em_read EXCEPT ![em_next] = @ + chunk]
                /\ em_disk' = fh.disk
                /\ em_buffer' = fh.buffer
                /\ UNCHANGED em_pc
    /\ UNCHANGED <<em_members, em_next, em_calls>>
    /\ UNCHANGED notEm

\* decrypt_file(out, verbose) after the member has been copied: gpg reads
\* the file out; an exception of decrypt_file leaves process_email_file
EmMember ==
    /\ em_pc = "decrypt"
    /\ LET member == em_members[em_next]
           result == decrypt_file(EmailOut, member.run)
       IN  /\ em_calls' = Append(em_calls,
                                 [run |-> member.run, result |-> result,
                                  member |-> em_next, read |-> em_read,
                                  disk |-> em_disk])
           /\ em_pc' = IF result.exc = "none" THEN "members" ELSE "raised"
    /\ em_next' = em_next + 1
    /\ UNCHANGED <<em_members, em_read, em_disk, em_buffer>>
    /\ UNCHANGED notEm

\* the end of the loop: the file out is closed, and process_email_file
\* returns
EmReturn ==
    /\ em_pc = "members"
    /\ em_next = Len(em_members) + 1
    /\ em_pc' = "returned"
    /\ em_disk' = em_disk + em_buffer
    /\ em_buffer' = 0
    /\ UNCHANGED <<em_members, em_next, em_calls, em_read>>
    /\ UNCHANGED notEm

\* an exception leaves the with block: the file out is closed
EmRaise ==
    /\ em_pc = "raised"
    /\ em_buffer # 0
    /\ em_disk' = em_disk + em_buffer
    /\ em_buffer' = 0
    /\ UNCHANGED <<em_members, em_next, em_pc, em_calls, em_read>>
    /\ UNCHANGED notEm

EmNext == EmSkip \/ EmCopy \/ EmMember \/ EmReturn \/ EmRaise

SpecEmail == EmInit /\ [][EmNext]_vars

(***************************************************************************)
(* The functions that run one task per item: batch_user_info_combos and    *)
(* batch_course_axes (one report per directory, in a pool),                *)
(* process_sql_archive (one unpacker per archive entry, in a pool), and    *)
(* the loop of split_sql_files that calls make_user_info_combo for one     *)
(* directory after the other.  A task that has opened its output file is   *)
(* "writing" until it ends.                                                *)
(***************************************************************************)
PoolFunctions ==
    {"batch_user_info_combos", "batch_course_axes", "process_sql_archive"}

SequentialLoop == "split_sql_files"

\* an archive entry that format_sql_filename gives no target for
SkippedEntry == "s/"

\* format_sql_filename(name)[1]: the target of an archive entry, "" for None
format_sql_filename(name) == IF name = SkippedEntry THEN "" ELSE name

\* the file the task of an item writes: the report of the directory, or
\* the target of the archive entry ("" when it writes none)
FileOf(fn, item) ==
    IF fn = "process_sql_archive" THEN format_sql_filename(item) ELSE item

FileTask(fn, item) == Task([item |-> item, file |-> FileOf(fn, item)])

\* the tasks that have their output file open
Writing(tasks) == {i \in 1..Len(tasks) : tasks[i].st = "writing"}

\* the tasks that have opened their output file, now or before
Opened(tasks, file) ==
    {i \in 1..Len(tasks) :
        /\ tasks[i].work.file = file
        /\ tasks[i].st \in {"writing", "done", "failed_writing"}}

ItemNames(fn) ==
    IF fn = "process_sql_archive" THEN {"a", "b", SkippedEntry} ELSE {"a", "b"}

\* the lists of items: dirnames is any list for the batch_ functions, the
\* list of a set in split_sql_files
ItemLists(fn) ==
    {items \in UNION {[1..n -> ItemNames(fn)] : n \in 0..MaxDirs} :
        fn = SequentialLoop =>
            \A i, j \in 1..Len(items) : items[i] = items[j] => i = j}

BtInit ==
    /\ OthersIdle("bt")
    /\ bt_fn \in PoolFunctions \cup {SequentialLoop}
    /\ bt_items \in ItemLists(bt_fn)
    /\ bt_tasks = IF bt_fn = SequentialLoop
                  THEN [i \in 1..Len(bt_items) |-> FileTask(bt_fn, bt_items[i])]
                  ELSE <<>>
    /\ bt_pc = IF bt_fn = SequentialLoop THEN "loop" ELSE "submit"
    /\ bt_get = 1
    /\ bt_exc = 0
    /\ bt_out = <<>>

\* the directory the archive is unpacked into
DestDir == "d"

\* what unpacker returns for the task: os.path.join(ddir, target_name),
\* or None for an entry without target
unpacker_result(task) ==
    IF task.work.file = "" THEN <<>> ELSE <<DestDir, task.work.file>>

\* a faulty variant of gather: the result is put in front of the list
gather_in_front(out, result) ==
    IF result = <<>> THEN out ELSE <<result>> \o out

\* `if not result: continue` and out.append(result)
gather(out, result) ==
    IF result = <<>> THEN out ELSE Append(out, result)

\* `if not dirnames: return` of the batch_ functions
BtNoDirs ==
    /\ bt_pc = "submit"
    /\ bt_fn \in {"batch_user_info_combos", "batch_course_axes"}
    /\ bt_items = <<>>
    /\ bt_pc' = "returned"
    /\ UNCHANGED <<bt_fn, bt_items, bt_tasks, bt_get, bt_exc>>
    /\ UNCHANGED bt_out
    /\ UNCHANGED notBt

\* one iteration of the loop over the items: pool.apply_async
BtSubmit ==
    /\ bt_pc = "submit"
    /\ Len(bt_tasks) < Len(bt_items)
    /\ bt_tasks' = Append(bt_tasks,
                          FileTask(bt_fn, bt_items[Len(bt_tasks) + 1]))
    /\ UNCHANGED <<bt_fn, bt_items, bt_pc, bt_get, bt_exc>>
    /\ UNCHANGED bt_out
    /\ UNCHANGED notBt

\* the end of the loop over the items: the loop over the results begins
BtSubmitted ==
    /\ bt_pc = "submit"
    /\ Len(bt_tasks) = Len(bt_items)
    /\ bt_fn = "process_sql_archive" \/ bt_items # <<>>
    /\ bt_pc' = "gather"
    /\ UNCHANGED <<bt_fn, bt_items, bt_tasks, bt_get, bt_exc>>
    /\ UNCHANGED bt_out
    /\ UNCHANGED notBt

\* a worker of the pool takes the next task
BtStart ==
    /\ bt_pc \in {"submit", "gather"}
    /\ CanStart(bt_tasks)
    /\ bt_tasks' = SetState(bt_tasks, NextQueued(bt_tasks), "running")
    /\ UNCHANGED <<bt_fn, bt_items, bt_pc, bt_get, bt_exc>>
    /\ UNCHANGED bt_out
    /\ UNCHANGED notBt

\* a running task opens its output file (gzip.open(..., 'wt') of a report,
\* open(target_name, 'wb') of unpacker)
BtOpen ==
    /\ \E i \in Running(bt_tasks) :
            /\ bt_tasks[i].work.file # ""
            /\ bt_tasks' = SetState(bt_tasks, i, "writing")
    /\ UNCHANGED <<bt_fn, bt_items, bt_pc, bt_get, bt_exc>>
    /\ UNCHANGED bt_out
    /\ UNCHANGED notBt

\* a task of the pool ends: it raises before it has opened its file or
\* while it writes, or it returns (unpacker returns at once for an entry
\* without target)
BtFinish ==
    /\ \E i \in Running(bt_tasks) \cup Writing(bt_tasks) :
        \E st \in {"done", "failed"} :
            /\ st = "done" =>
                    (bt_tasks[i].st = "writing" \/ bt_tasks[i].work.file = "")
            /\ bt_tasks' =
                    SetState(bt_tasks, i,
                             IF st = "failed" /\ bt_tasks[i].st = "writing"
                             THEN "failed_writing" ELSE st)
    /\ UNCHANGED <<bt_fn, bt_items, bt_pc, bt_get, bt_exc>>
    /\ UNCHANGED bt_out
    /\ UNCHANGED notBt

Ended(tasks) ==
    {i \in 1..Len(tasks) : tasks[i].st \in {"done", "failed", "failed_writing"}}

\* result.get() of the loop over the results: it returns when the task is
\* done, and raises the error of a task that failed, which leaves the with
\* block and the function
BtGet ==
    /\ bt_pc = "gather"
    /\ bt_get \in Ended(bt_tasks)
    /\ IF bt_tasks[bt_get].st = "done"
       THEN /\ bt_get' = bt_get + 1
            /\ bt_out' = IF bt_fn = "process_sql_archive"
                          THEN gather(bt_out,
                                      unpacker_result(bt_tasks[bt_get]))
                          ELSE bt_out
            /\ UNCHANGED <<bt_tasks, bt_pc, bt_exc>>
       ELSE /\ bt_exc' = bt_get
            /\ bt_tasks' = pool_exit(bt_tasks)
            /\ bt_pc' = "raised"
            /\ UNCHANGED <<bt_get, bt_out>>
    /\ UNCHANGED <<bt_fn, bt_items>>
    /\ UNCHANGED notBt

\* the loop over the results is over: the with block is left and the
\* function returns
BtReturn ==
    /\ bt_pc = "gather"
    /\ bt_get = Len(bt_tasks) + 1
    /\ bt_tasks' = pool_exit(bt_tasks)
    /\ bt_pc' = "returned"
    /\ UNCHANGED <<bt_fn, bt_items, bt_get, bt_exc>>
    /\ UNCHANGED bt_out
    /\ UNCHANGED notBt

\* the folders the loop of split_sql_files has not reached when
\* make_user_info_combo raises: their report is never made
loop_exit(tasks) ==
    [i \in 1..Len(tasks) |->
        IF tasks[i].st = "queued" THEN [tasks[i] EXCEPT !.st = "dropped"]
        ELSE tasks[i]]

\* one iteration of `for folder in dirnames` in split_sql_files:
\* make_user_info_combo(folder) returns, or raises, which leaves the loop
\* for the except clause of the archive: the folders left are not reached
BtLoopFolder ==
    /\ bt_pc = "loop"
    /\ bt_get \in 1..Len(bt_tasks)
    /\ \E st \in {"done", "failed", "failed_writing"} :
        IF st = "done"
        THEN /\ bt_tasks' = SetState(bt_tasks, bt_get, st)
             /\ bt_get' = bt_get + 1
             /\ UNCHANGED <<bt_pc, bt_exc>>
        ELSE /\ bt_tasks' = loop_exit(SetState(bt_tasks, bt_get, st))
             /\ bt_exc' = bt_get
             /\ bt_pc' = "raised"
             /\ UNCHANGED bt_get
    /\ UNCHANGED <<bt_fn, bt_items>>
    /\ UNCHANGED bt_out
    /\ UNCHANGED notBt

\* the end of `for folder in dirnames`
BtLoopEnd ==
    /\ bt_pc = "loop"
    /\ bt_get = Len(bt_tasks) + 1
    /\ bt_pc' = "returned"
    /\ UNCHANGED <<bt_fn, bt_items, bt_tasks, bt_get, bt_exc>>
    /\ UNCHANGED bt_out
    /\ UNCHANGED notBt

BtNext ==
    \/ BtNoDirs
    \/ BtSubmit
    \/ BtSubmitted
    \/ BtStart
    \/ BtOpen
    \/ BtFinish
    \/ BtGet
    \/ BtReturn
    \/ BtLoopFolder
    \/ BtLoopEnd

SpecBatch == BtInit /\ [][BtNext]_vars

(***************************************************************************)
(* make_sql_tables (simeon/report/utilities.py).  What a report generator  *)
(* does in the directory is an input: it makes its report, or raises.      *)
(***************************************************************************)
reports ==
    <<"make_course_axis", "make_forum_table", "make_grades_persistent",
      "make_grading_policy", "make_roles_table", "make_student_module",
      "make_user_info_combo">>

\* the exception a report generator raises when it fails: no course node
\* in the structure, no grading policy in the archive, a missing dump
FailureOf(maker) ==
    CASE maker = "make_course_axis" -> "BadSQLFileException"
      [] maker = "make_grading_policy" -> "MissingFileException"
      [] OTHER -> "FileNotFoundError"

TbInit ==
    /\ OthersIdle("tb")
    /\ tb_outcomes \in
            {o \in [1..Len(reports) -> {"none", "BadSQLFileException",
                                        "MissingFileException",
                                        "FileNotFoundError"}] :
                \A i \in 1..Len(reports) :
                    o[i] \in {"none", FailureOf(reports[i])}}
    /\ tb_next = 1
    /\ tb_pc = "makers"
    /\ tb_called = <<>>
    /\ tb_exc = "none"

\* one iteration of `for maker in reports`: maker(dirname) is called; an
\* exception of the maker leaves make_sql_tables
TbCallMaker ==
    /\ tb_pc = "makers"
    /\ tb_next \in 1..Len(reports)
    /\ tb_called' = Append(tb_called, reports[tb_next])
    /\ IF tb_outcomes[tb_next] = "none"
       THEN /\ tb_next' = tb_next + 1
            /\ UNCHANGED <<tb_pc, tb_exc>>
       ELSE /\ tb_pc' = "raised"
            /\ tb_exc' = tb_outcomes[tb_next]
            /\ UNCHANGED tb_next
    /\ UNCHANGED tb_outcomes
    /\ UNCHANGED notTb

\* the end of the loop: make_sql_tables returns
TbReturn ==
    /\ tb_pc = "makers"
    /\ tb_next = Len(reports) + 1
    /\ tb_pc' = "returned"
    /\ UNCHANGED <<tb_outcomes, tb_next, tb_called, tb_exc>>
    /\ UNCHANGED notTb

TbNext == TbCallMaker \/ TbReturn

SpecTables == TbInit /\ [][TbNext]_vars

(***************************************************************************)
(* wait_for_bq_jobs (simeon/report/utilities.py and, the same code,        *)
(* simeon/scripts/simeon.py).  The jobs run at the server: a job that is   *)
(* not done becomes done at any time; job.done() tells the state of the    *)
(* job at the time of the call, as 0 or 1.                                 *)
(***************************************************************************)
JbInit ==
    /\ OthersIdle("jb")
    /\ jb_jobs \in UNION {[1..n -> BOOLEAN] : n \in 0..MaxJobs}
    /\ jb_done = 0
    /\ jb_pos = 0
    /\ jb_pc = "while"

\* a job ends at the server
JbJobEnds ==
    /\ jb_pc \in {"while", "for"}
    /\ \E j \in 1..Len(jb_jobs) :
            /\ ~jb_jobs[j]
            /\ jb_jobs' = [jb_jobs EXCEPT ![j] = TRUE]
    /\ UNCHANGED <<jb_done, jb_pos, jb_pc>>
    /\ UNCHANGED notJb

\* `while done < len(job_list)`: the for loop is entered, or the function
\* returns
JbWhile ==
    /\ jb_pc = "while"
    /\ IF jb_done < Len(jb_jobs)
       THEN jb_pc' = "for" /\ jb_pos' = 1
       ELSE jb_pc' = "returned" /\ jb_pos' = 0
    /\ UNCHANGED <<jb_jobs, jb_done>>
    /\ UNCHANGED notJb

\* one iteration of `for job in job_list`: state = job.done(), the job is
\* reloaded when it is not done, and done += state
JbPoll ==
    /\ jb_pc = "for"
    /\ jb_pos \in 1..Len(jb_jobs)
    /\ jb_done' = jb_done + (IF jb_jobs[jb_pos] THEN 1 ELSE 0)
    /\ IF jb_pos = Len(jb_jobs)
       THEN jb_pc' = "while" /\ jb_pos' = 0
       ELSE jb_pc' = "for" /\ jb_pos' = jb_pos + 1
    /\ UNCHANGED jb_jobs
    /\ UNCHANGED notJb

JbNext == JbJobEnds \/ JbWhile \/ JbPoll

SpecJobs == JbInit /\ [][JbNext]_vars

(***************************************************************************)
(* split_sql_files (simeon/scripts/simeon.py).  What the functions it      *)
(* calls do with an archive is an input:                                   *)
(*   split    whether process_sql_archive returns or raises                *)
(*   decrypt  whether batch_decrypt_files returns or raises                *)
(*   n        the number of course directories of the files unpacked       *)
(*   fails    the first directory, in the order of the loop, whose user    *)
(*            info combo report raises, or 0                               *)
(* A string msg is known by the replacement fields it holds.               *)
(***************************************************************************)
\* '{w} file name {f}'
FileMsg == {"w", "f"}

\* 'Making a user info combo report with files in {d}'
FolderMsg == {"d"}

\* 'Failed to split and decrypt {f}: {e}'.format(f=fname, e=excp), for a
\* file name and an error text without braces
FailedText == {}

\* msg.format(**kwargs) raises KeyError for a replacement field that is
\* not among the keywords
FormatRaises(msg, keywords) == ~(msg \subseteq keywords)

Outcomes == {"returns", "raises"}

Archives ==
    {a \in [split : Outcomes, decrypt : Outcomes,
            n : (0..MaxFolders) \cup {PoolThreshold},
            fails : 0..MaxFolders] :
        /\ a.fails <= a.n
        /\ a.split = "raises" => a.decrypt = "raises" /\ a.n = 0
        /\ a.decrypt = "raises" => a.n = 0}

SpInit ==
    /\ OthersIdle("sp")
    /\ sp_files \in UNION {[1..n -> Archives] : n \in 0..MaxArchives}
    /\ sp_no_decryption \in BOOLEAN
    /\ sp_next = 1
    /\ sp_folder = 0
    /\ sp_pc = "for"
    /\ sp_msg = FileMsg
    /\ sp_failed = FALSE
    /\ sp_attempted = <<>>
    /\ sp_status = -1

\* the next iteration of `for fname in parsed_args.downloaded_files`
NextArchive ==
    /\ sp_next' = sp_next + 1
    /\ sp_pc' = "for"

\* `for fname in ...` and the first message, msg.format(f=fname,
\* w='Splitting'), which is not inside the try statement
SpFor ==
    /\ sp_pc = "for"
    /\ IF sp_next > Len(sp_files)
       THEN sp_pc' = "exit"
       ELSE IF FormatRaises(sp_msg, {"f", "w"})
            THEN sp_pc' = "raised"
            ELSE sp_pc' = "try"
    /\ UNCHANGED <<sp_files, sp_no_decryption, sp_next, sp_folder, sp_msg,
                   sp_failed, sp_attempted, sp_status>>
    /\ UNCHANGED notSp

\* process_sql_archive(fname), the message 'Done splitting' and
\* `if parsed_args.no_decryption: continue`
SpSplit ==
    /\ sp_pc = "try"
    /\ sp_attempted' = Append(sp_attempted, sp_next)
    /\ IF sp_files[sp_next].split = "raises"
            \/ FormatRaises(sp_msg, {"f", "w"})
       THEN sp_pc' = "except" /\ UNCHANGED sp_next
       ELSE IF sp_no_decryption
            THEN NextArchive
            ELSE sp_pc' = "decrypt" /\ UNCHANGED sp_next
    /\ UNCHANGED <<sp_files, sp_no_decryption, sp_folder, sp_msg, sp_failed,
                   sp_status>>
    /\ UNCHANGED notSp

\* batch_decrypt_files(to_decrypt), its messages, dirnames and the choice
\* `if len(dirnames) >= 10`
SpDecrypt ==
    /\ sp_pc = "decrypt"
    /\ IF sp_files[sp_next].decrypt = "raises"
            \/ FormatRaises(sp_msg, {"f", "w"})
       THEN sp_pc' = "except" /\ UNCHANGED sp_folder
       ELSE IF sp_files[sp_next].n >= PoolThreshold
            THEN sp_pc' = "pooled" /\ UNCHANGED sp_folder
            ELSE sp_pc' = "folders" /\ sp_folder' = 1
    /\ UNCHANGED <<sp_files, sp_no_decryption, sp_next, sp_msg, sp_failed,
                   sp_attempted, sp_status>>
    /\ UNCHANGED notSp

\* batch_user_info_combos(dirnames): it raises when a report raises
SpPooled ==
    /\ sp_pc = "pooled"
    /\ IF sp_files[sp_next].fails # 0
       THEN sp_pc' = "except" /\ UNCHANGED sp_next
       ELSE NextArchive
    /\ UNCHANGED <<sp_files, sp_no_decryption, sp_folder, sp_msg, sp_failed,
                   sp_attempted, sp_status>>
    /\ UNCHANGED notSp

\* one iteration of `for folder in dirnames`: msg is bound to the message
\* of the folder, and make_user_info_combo(folder) is called
SpFolder ==
    /\ sp_pc = "folders"
    /\ IF sp_folder > sp_files[sp_next].n
       THEN /\ NextArchive
            /\ UNCHANGED <<sp_folder, sp_msg>>
       ELSE /\ sp_msg' = FolderMsg
            /\ IF sp_files[sp_next].fails = sp_folder
               THEN sp_pc' = "except" /\ UNCHANGED sp_folder
               ELSE sp_pc' = "folders" /\ sp_folder' = sp_folder + 1
            /\ UNCHANGED sp_next
    /\ UNCHANGED <<sp_files, sp_no_decryption, sp_failed, sp_attempted,
                   sp_status>>
    /\ UNCHANGED notSp

\* `except Exception as excp`: failed = True, and msg is bound to the text
\* of the failure
SpExcept ==
    /\ sp_pc = "except"
    /\ sp_failed' = TRUE
    /\ sp_msg' = FailedText
    /\ NextArchive
    /\ UNCHANGED <<sp_files, sp_no_decryption, sp_folder, sp_attempted,
                   sp_status>>
    /\ UNCHANGED notSp

\* sys.exit(0 if not failed else 1)
SpExit ==
    /\ sp_pc = "exit"
    /\ sp_status' = IF sp_failed THEN 1 ELSE 0
    /\ sp_pc' = "exited"
    /\ UNCHANGED <<sp_files, sp_no_decryption, sp_next, sp_folder, sp_msg,
                   sp_failed, sp_attempted>>
    /\ UNCHANGED notSp

\* main: an exception of the command that is not SystemExit is logged, and
\* sys.exit(1)
SpMainExcept ==
    /\ sp_pc = "raised"
    /\ sp_status' = 1
    /\ sp_pc' = "exited"
    /\ UNCHANGED <<sp_files, sp_no_decryption, sp_next, sp_folder, sp_msg,
                   sp_failed, sp_attempted>>
    /\ UNCHANGED notSp

SpNext ==
    \/ SpFor
    \/ SpSplit
    \/ SpDecrypt
    \/ SpPooled
    \/ SpFolder
    \/ SpExcept
    \/ SpExit
    \/ SpMainExcept

SpecSplit == SpInit /\ [][SpNext]_vars

(***************************************************************************)
(* make_forum_table (simeon/report/utilities.py).  A line of forum.mongo   *)
(* is a dict of tagged values.  json.dumps writes a str between double     *)
(* quotes, None as null and a list between brackets, its items separated   *)
(* by ', '; a dict with one key as {"key": value}.                         *)
(***************************************************************************)
RECURSIVE json_dumps(_)
RECURSIVE json_items(_, _)

\* the items of the list from the i-th on, as json.dumps writes them
json_items(l, i) ==
    IF i > Len(l) THEN <<>>
    ELSE json_dumps(l[i])
            \o (IF i < Len(l) THEN <<",", " ">> ELSE <<>>)
            \o json_items(l, i + 1)

\* json.dumps(v), as the characters of the str
json_dumps(v) ==
    CASE v.t = "none" -> LowerNull
      [] v.t = "str" -> <<"\"">> \o v.s \o <<"\"">>
      [] v.t = "list" -> <<"[">> \o json_items(v.l, 1) \o <<"]">>
      [] v.t = "dict" ->
            IF DOMAIN v.d = {} THEN <<"{", "}">>
            ELSE LET k == CHOOSE x \in DOMAIN v.d : TRUE
                 IN  <<"{", "\"", k, "\"", ":", " ">> \o json_dumps(v.d[k])
                        \o <<"}">>

\* bool(v) is False: None, '', [] and {}
Falsy(v) ==
    \/ v.t = "none"
    \/ v.t = "str" /\ v.s = EmptyStr
    \/ v.t = "list" /\ v.l = <<>>
    \/ v.t = "dict" /\ DOMAIN v.d = {}

\* d.get(key) of a dict
GetValue(d, key) == IF key \in DOMAIN d THEN d[key] ELSE NoneValue

\* a faulty variant of extract_mongo_values: of a list, the sub-field of
\* the first entry only
extract_mongo_values_first(record, key, subkey) ==
    LET target == GetValue(record, key)
    IN  IF Falsy(target) THEN target
        ELSE IF target.t = "dict" THEN GetValue(target.d, subkey)
        ELSE IF target.t = "list"
        THEN LET IsHeld(subrec) == subkey \in DOMAIN subrec.d
                 held == SelectSeq(target.l, IsHeld)
             IN  Str(json_dumps(List([i \in 1..(IF held = <<>> THEN 0 ELSE 1)
                                        |-> held[i].d[subkey]])))
        ELSE NoneValue

\* _extract_mongo_values(record, key, subkey), for a list of dicts
extract_mongo_values(record, key, subkey) ==
    LET target == GetValue(record, key)
    IN  IF Falsy(target) THEN target
        ELSE IF target.t = "dict" THEN GetValue(target.d, subkey)
        ELSE IF target.t = "list"
        THEN LET IsHeld(subrec) == subkey \in DOMAIN subrec.d
                 held == SelectSeq(target.l, IsHeld)
             IN  Str(json_dumps(List([i \in 1..Len(held) |->
                                        held[i].d[subkey]])))
        ELSE NoneValue

\* a column of cols: the key of its envelope ('' for None), its name and
\* the name of its sub-column ('' when the column is no pair)
Column(subkey, col, subcol) ==
    [subkey |-> subkey, col |-> col, subcol |-> subcol]

\* cols, in the order of the loops over cols.items() and keys
cols ==
    LET oid == <<"_id", "parent_id", "parent_ids", "comment_thread_id">>
        date == <<"updated_at", "created_at", "last_activity_at">>
        plain == <<"_type", "abuse_flaggers", "anonymous",
                   "anonymous_to_peers", "at_position_list", "author_id",
                   "author_username", "body", "child_count", "closed",
                   "comment_count", "commentable_id", "context",
                   "course_id", "depth", "endorsed",
                   "historical_abuse_flaggers", "pinned",
                   "retired_username", "sk", "thread_type", "title",
                   "visible", "votes">>
    IN  [i \in 1..Len(oid) |-> Column("$oid", oid[i], "")]
            \o <<Column("$date", "endorsement", "time")>>
            \o [i \in 1..Len(date) |-> Column("$date", date[i], "")]
            \o [i \in 1..Len(plain) |-> Column("", plain[i], "")]

\* the envelope step of a column: record[col], or record[col][subcol], is
\* set to the value extracted
forum_extract(record, c) ==
    IF c.subkey = "" THEN Outcome(record, "none")
    ELSE IF c.subcol # ""
    THEN LET value == GetValue(record, c.col)
             holder == IF Falsy(value) THEN Dict(EmptyDict) ELSE value
         IN  \* (record.get(col, {}) or {}).get(subcol) on a str or a list
             IF holder.t # "dict" THEN Outcome(record, "AttributeError")
             ELSE LET val == extract_mongo_values(holder.d, c.subcol,
                                                  c.subkey)
                      kept == IF value.t = "dict" THEN value.d ELSE EmptyDict
                  IN  Outcome(Put(record, c.col,
                                  Dict(Put(kept, c.subcol, val))), "none")
    ELSE Outcome(Put(record, c.col,
                     extract_mongo_values(record, c.col, c.subkey)), "none")

\* a faulty variant of forum_flatten: the lists of a dict are left as they
\* are
forum_flatten_top(record, col) ==
    LET value == GetValue(record, col)
    IN  IF col \in DOMAIN record /\ value = Str(NULL)
        THEN Put(record, col, NoneValue)
        ELSE IF value.t = "list"
        THEN Put(record, col, Str(json_dumps(value)))
        ELSE record

\* the three tests that follow the envelope step: 'NULL' becomes None, a
\* list its JSON text, and each list of a dict its JSON text
forum_flatten(record, col) ==
    LET value == GetValue(record, col)
    IN  IF col \in DOMAIN record /\ value = Str(NULL)
        THEN Put(record, col, NoneValue)
        ELSE IF value.t = "list"
        THEN Put(record, col, Str(json_dumps(value)))
        ELSE IF value.t = "dict"
        THEN Put(record, col,
                 Dict([k \in DOMAIN value.d |->
                        IF value.d[k].t = "list"
                        THEN Str(json_dumps(value.d[k])) ELSE value.d[k]]))
        ELSE record

RECURSIVE forum_columns(_, _)
\* the loops over cols from the i-th column on
forum_columns(record, i) ==
    IF i > Len(cols) THEN Outcome(record, "none")
    ELSE LET extracted == forum_extract(record, cols[i])
         IN  IF extracted.exc # "none" THEN extracted
             ELSE forum_columns(forum_flatten(extracted.value, cols[i].col),
                                i + 1)

\* schema_forum.json: every column of cols and mongoid, as STRING fields
ForumSchema ==
    [i \in 1..Len(cols) |-> Leaf(cols[i].col)] \o <<Leaf("mongoid")>>

\* the record written for a line: the columns, mongoid, drop_extra_keys
forum_record(record) ==
    LET done == forum_columns(record, 1)
    IN  IF done.exc # "none" THEN done
        ELSE LET aliased == Put(done.value, "mongoid", done.value["_id"])
                 dropped == drop_extra_keys(Dict(aliased), ForumSchema)
             IN  Outcome(dropped.value.d, dropped.exc)

(***************************************************************************)
(* The lines make_forum_table is run on: a document with its _id, and one  *)
(* more field, under an envelope or not, with a value of each shape.       *)
(***************************************************************************)
Envelope(subkey, text) == Dict([k \in {subkey} |-> Str(text)])

\* the values given to a column whose envelope is subkey
EnvelopeValues(subkey) ==
    LET a == Envelope(subkey, <<"a">>)
        b == Envelope(subkey, <<"b">>)
        other == Dict([k \in {"x"} |-> Str(<<"c">>)])
    IN  {a, other, Dict(EmptyDict), List(<<>>), List(<<a>>), List(<<a, b>>),
         List(<<b, a>>), List(<<a, other, b>>), Str(NULL), Str(<<"a">>),
         NoneValue}

\* fewer of them, for the columns other than parent_ids
EnvelopeFew(subkey) ==
    LET a == Envelope(subkey, <<"a">>)
        b == Envelope(subkey, <<"b">>)
        other == Dict([k \in {"x"} |-> Str(<<"c">>)])
    IN  {a, other, Dict(EmptyDict), List(<<a, b>>), Str(NULL), NoneValue}

\* the values given to a column without envelope
PlainValues ==
    LET strs == List(<<Str(<<"a">>), Str(<<"b">>)>>)
    IN  {Str(<<"a">>), Str(NULL), NoneValue, List(<<>>), strs,
         Dict(EmptyDict),
         Dict([k \in {"up", "count"} |->
                IF k = "up" THEN strs ELSE Str(<<"2">>)])}

ForumDocuments ==
    LET base == [k \in {"_id"} |-> Envelope("$oid", <<"i">>)]
    IN  {base}
        \cup {[k \in {"_id"} |-> v] : v \in EnvelopeFew("$oid")}
        \cup {Put(base, "parent_ids", v) : v \in EnvelopeValues("$oid")}
        \cup {Put(base, "updated_at", v) : v \in EnvelopeFew("$date")}
        \cup {Put(base, "endorsement", v) :
                v \in {Dict([k \in {"time", "user_id"} |->
                            IF k = "time" THEN t ELSE Str(<<"u">>)]) :
                        t \in EnvelopeFew("$date")}
                      \cup {NoneValue, Str(NULL), Dict(EmptyDict)}}
        \cup {Put(base, c, v) : c \in {"votes", "body"}, v \in PlainValues}
        \cup {Put(base, "undeclared", Str(<<"a">>))}

ForumInit ==
    /\ OthersIdle("fo")
    /\ fo_lines \in UNION {[1..n -> ForumDocuments] : n \in 0..MaxLines}
    /\ fo_next = 1
    /\ fo_out = <<>>
    /\ fo_exc = "none"

\* one iteration of `for line in fh`: the record is written, or an
\* exception leaves make_forum_table
ForumWriteRecord ==
    /\ fo_exc = "none"
    /\ fo_next \in 1..Len(fo_lines)
    /\ LET out == forum_record(fo_lines[fo_next])
       IN  IF out.exc # "none"
           THEN /\ fo_exc' = out.exc
                /\ fo_next' = 0
                /\ UNCHANGED fo_out
           ELSE /\ fo_out' = Append(fo_out, [of |-> fo_next,
                                             record |-> out.value])
                /\ fo_next' = fo_next + 1
                /\ UNCHANGED fo_exc
    /\ UNCHANGED fo_lines
    /\ UNCHANGED notForum

\* the end of the loop: the files are closed
ForumClose ==
    /\ fo_exc = "none"
    /\ fo_next = Len(fo_lines) + 1
    /\ fo_next' = 0
    /\ UNCHANGED <<fo_lines, fo_out, fo_exc>>
    /\ UNCHANGED notForum

ForumNext == ForumWriteRecord \/ ForumClose

SpecForum == ForumInit /\ [][ForumNext]_vars

(***************************************************************************)
(* make_roles_table (report/utilities.py): the roles table merges the rows *)
(* of two dumps into one record per user id.  The file names are kept in a *)
(* set, so the order in which the two dumps are read is the iteration      *)
(* order of that set: either order can happen.                             *)
(***************************************************************************)
AccessDump == "student_courseaccessrole-analytics.sql"
ForumDump == "django_comment_client_role_users-analytics.sql"

\* files
RoleFiles == {AccessDump, ForumDump}

STUDENT == <<"S", "t", "u", "d", "e", "n", "t">>
STAFF == <<"S", "t", "a", "f", "f">>
staff == <<"s", "t", "a", "f", "f">>
support == <<"s", "u", "p", "p", "o", "r", "t">>
Moderator == <<"M", "o", "d", "e", "r", "a", "t", "o", "r">>

\* the columns of a record that hold a flag
RoleFlags ==
    {"roles_isBetaTester", "roles_isInstructor", "roles_isStaff",
     "roles_isCCX", "roles_isFinance", "roles_isLibrary", "roles_isSales",
     "forumRoles_isAdmin", "forumRoles_isCommunityTA",
     "forumRoles_isModerator", "forumRoles_isStudent"}

\* _default_roles()
default_roles ==
    [k \in RoleFlags \cup {"course_id", "user_id", "roles"} |->
        IF k \in RoleFlags THEN 0 ELSE None]

\* roles.get(role): the column of a role name, None for any other name (of
\* the twelve names of the code, the three that the dumps of the model use)
roles_get(role) ==
    CASE role = staff -> "roles_isStaff"
      [] role = Moderator -> "forumRoles_isModerator"
      [] role = STUDENT -> "forumRoles_isStudent"
      [] OTHER -> "None"

\* the body of `for inrow in reader`: data after one row
roles_row(acc, inrow) ==
    LET uid == inrow.user_id
        outrow == IF uid \in DOMAIN acc THEN acc[uid] ELSE default_roles
        col == roles_get(inrow.role)
        rval == IF Contains(inrow.role, STUDENT) THEN STUDENT ELSE STAFF
        new == [k \in DOMAIN outrow |->
                   CASE k = "user_id" -> uid
                     [] k = "course_id" -> get_sql_course_id(inrow.course_id)
                     [] k = "roles" -> rval
                     [] OTHER -> IF k = col THEN 1 ELSE outrow[k]]
    IN  [u \in DOMAIN acc \cup {uid} |-> IF u = uid THEN new ELSE acc[u]]

\* staff: the columns of the roles whose name starts with 'roles_'
StaffFlags == {"roles_isBetaTester", "roles_isInstructor", "roles_isStaff",
               "roles_isCCX", "roles_isFinance", "roles_isLibrary",
               "roles_isSales"}

\* the body of `for record in data.values()`: the record as written
roles_final(record) ==
    IF \E k \in StaffFlags : record[k] # 0
    THEN [record EXCEPT !.roles = STAFF]
    ELSE record

\* the input: the rows of a dump, as the reader gives them (the header of
\* either dump names user_id, course_id and, after the replacement of
\* '\tname', role)
RoleCourses == {<<"a">>, <<"v", ":", "b">>}
AccessRows == [user_id : UserIds, course_id : RoleCourses,
               role : {staff, support}]
ForumRows == [user_id : UserIds, course_id : RoleCourses,
              role : {STUDENT, Moderator}]
RowsUpTo(S) == UNION {[1..n -> S] : n \in 0..MaxRows}

RolesInit ==
    /\ OthersIdle("ro")
    /\ \E a \in RowsUpTo(AccessRows), f \in RowsUpTo(ForumRows) :
            ro_dumps = [d \in RoleFiles |-> IF d = AccessDump THEN a ELSE f]
    /\ ro_order \in {<<AccessDump, ForumDump>>, <<ForumDump, AccessDump>>}
    /\ ro_file = 1
    /\ ro_next = 1
    /\ ro_data = <<>>
    /\ ro_keys = <<>>
    /\ ro_out = <<>>
    /\ ro_pc = "reading"

\* one iteration of `for inrow in reader`
RoRow ==
    /\ ro_pc = "reading"
    /\ ro_file <= Len(ro_order)
    /\ ro_next <= Len(ro_dumps[ro_order[ro_file]])
    /\ LET inrow == ro_dumps[ro_order[ro_file]][ro_next]
       IN  /\ ro_data' = roles_row(ro_data, inrow)
           /\ ro_keys' = IF inrow.user_id \in DOMAIN ro_data
                         THEN ro_keys
                         ELSE Append(ro_keys, inrow.user_id)
    /\ ro_next' = ro_next + 1
    /\ UNCHANGED <<ro_dumps, ro_order, ro_file, ro_out, ro_pc>>
    /\ UNCHANGED notRoles

\* the reader of a dump has no more rows: the next file of the set
RoFile ==
    /\ ro_pc = "reading"
    /\ ro_file <= Len(ro_order)
    /\ ro_next > Len(ro_dumps[ro_order[ro_file]])
    /\ ro_file' = ro_file + 1
    /\ ro_next' = 1
    /\ UNCHANGED <<ro_dumps, ro_order, ro_data, ro_keys, ro_out, ro_pc>>
    /\ UNCHANGED notRoles

\* `for record in data.values()`: the records are written in the order of
\* their insertion
RoWrite ==
    /\ ro_pc = "reading"
    /\ ro_file > Len(ro_order)
    /\ ro_out' = [i \in 1..Len(ro_keys) |-> roles_final(ro_data[ro_keys[i]])]
    /\ ro_pc' = "done"
    /\ UNCHANGED <<ro_dumps, ro_order, ro_file, ro_next, ro_data, ro_keys>>
    /\ UNCHANGED notRoles

RolesNext == RoRow \/ RoFile \/ RoWrite

SpecRoles == RolesInit /\ [][RolesNext]_vars

(***************************************************************************)
(* The tree of a document, read off its children lists.                    *)
(***************************************************************************)
\* the name of a node of the documents above: the end of its block id
NodeName(block) == SubSeq(block, Len(block) - 1, Len(block))

Children(doc, block) == Node(doc, block).children

RECURSIVE Descendants(_, _)
Descendants(doc, block) ==
    UNION {{c} \cup Descendants(doc, c) : c \in Range(Children(doc, block))}

\* the positions of the records of the node in a list of records
PosOf(records, block) ==
    {p \in 1..Len(records) : records[p].url_name = NodeName(block)}

Pos(records, block) == CHOOSE p \in PosOf(records, block) : TRUE

\* the parent of a node that is not the root
ParentOf(doc, block) ==
    CHOOSE i \in 1..Len(doc) : block \in Range(doc[i].children)

RECURSIVE NearestChapter(_, _, _)
\* the nearest chapter among the node and its ancestors, or None
NearestChapter(doc, root, block) ==
    IF Node(doc, block).category = Chapter THEN block
    ELSE IF block = root THEN None
    ELSE NearestChapter(doc, root, doc[ParentOf(doc, block)].block)

\* the block of the p-th record of data
BlockAt(p) ==
    CHOOSE b \in {structure[i].block : i \in 1..Len(structure)} :
        NodeName(b) = data[p].url_name

Traversed == axis_pc \in {"writing", "done"}

(***************************************************************************)
(* C1.  For a document that is a tree rooted at a course node,             *)
(* process_course_structure started at the root returns one record per     *)
(* node reachable from the root, in pre-order: the root first, every node  *)
(* before all its descendants, and the whole subtree of a child before the *)
(* next child of the same children list.                                   *)
(***************************************************************************)
C1_PreOrder ==
    Traversed =>
        LET R == {root_block} \cup Descendants(structure, root_block)
        IN  /\ Len(data) = Cardinality(R)
            /\ \A b \in R : Cardinality(PosOf(data, b)) = 1
            /\ Pos(data, root_block) = 1
            /\ \A b \in R : \A d \in Descendants(structure, b) :
                    Pos(data, b) < Pos(data, d)
            /\ \A b \in R :
                    LET ch == Children(structure, b)
                    IN  \A i, j \in 1..Len(ch) :
                            i < j =>
                                \A d \in {ch[i]} \cup Descendants(structure, ch[i]) :
                                    Pos(data, d) < Pos(data, ch[j])

\* a traversed tree of four nodes in which a node has two children and the
\* first of them has a child of its own
C1_Witness ==
    /\ Traversed
    /\ Len(data) = 4
    /\ \E i \in 1..Len(structure) :
            /\ Len(structure[i].children) = 2
            /\ Children(structure, structure[i].children[1]) # <<>>

(***************************************************************************)
(* C2, as claimed.  The chapter_mid of every written record is the module  *)
(* id of the nearest chapter node among the record's node and its          *)
(* ancestors, and None when there is none.                                 *)
(***************************************************************************)
C2_NearestAncestorChapter ==
    \A p \in 1..Len(zh) :
        LET c == NearestChapter(structure, root_block, BlockAt(p))
        IN  zh[p].chapter_mid =
                IF c = None THEN None ELSE data[Pos(data, c)].module_id

(***************************************************************************)
(* C2, as amended.  The chapter_mid of every written record is the module  *)
(* id of the last chapter record at or before it in the output, ancestor   *)
(* or not, and None when no chapter record comes at or before it.          *)
(***************************************************************************)
C2_LatestChapter ==
    \A p \in 1..Len(zh) :
        LET chapters == {q \in 1..p : zh[q].category = Chapter}
        IN  zh[p].chapter_mid =
                IF chapters = {} THEN None
                ELSE zh[CHOOSE q \in chapters :
                            \A r \in chapters : r <= q].module_id

\* a record was written that carries the module id of a chapter that is
\* not among its node and its ancestors
C2_Witness ==
    \E p \in 1..Len(zh) :
        /\ zh[p].chapter_mid # None
        /\ zh[p].category # Chapter
        /\ NearestChapter(structure, root_block, BlockAt(p)) = None

(***************************************************************************)
(* C3.  The i-th record written by make_course_axis has index i (from 1,   *)
(* without gap) and is the i-th record of the traversal; when the loop     *)
(* ends every record of the traversal has been written.                    *)
(***************************************************************************)
C3_IndexAndOrder ==
    /\ Len(zh) <= Len(data)
    /\ \A p \in 1..Len(zh) :
            /\ zh[p].index = p
            /\ zh[p].url_name = data[p].url_name
            /\ zh[p].module_id = data[p].module_id
            /\ zh[p].category = data[p].category
    /\ axis_pc = "done" => Len(zh) = Len(data)

\* the axis of a tree of at least three nodes has been written
C3_Witness == axis_pc = "done" /\ Len(zh) >= 3

\* the document is a course root followed by its children, all chapters
\* without children
CourseOfChapters ==
    /\ structure # <<>>
    /\ Cardinality({i \in 1..Len(structure) :
                        structure[i].category = Course}) = 1
    /\ \A i \in 1..Len(structure) :
            IF structure[i].category = Course
            THEN Range(structure[i].children) =
                    {structure[j].block : j \in 1..Len(structure)}
                        \ {structure[i].block}
            ELSE structure[i].category = Chapter
                    /\ structure[i].children = <<>>

\* the course id of the documents above: O/C/<run> with the run in the
\* legacy root id, O/C/R in the modern one
ExpectedCourseId ==
    IF StartsWith(structure[1].block, I4X_PREFIX)
    THEN <<"O", "/", "C", "/">> \o NodeName(root_block)
    ELSE <<"O", "/", "C", "/", "R">>

LastOp == sc_ops[Len(sc_ops)]

AfterCheck == sc_ops # <<>> /\ LastOp = "check"

AfterDrop == sc_ops # <<>> /\ LastOp = "drop"

\* the record holds a dict under the name of the field
HoldsDict(record, field) ==
    field.name \in DOMAIN record.d /\ IsDict(record.d[field.name])

\* some STRING field of the schema, or of a RECORD field of the schema, is
\* not in the record
SomeLeafAbsent(record, schema) ==
    \E i \in 1..Len(schema) :
        IF schema[i].field_type # "RECORD"
        THEN schema[i].name \notin DOMAIN record.d
        ELSE \E j \in 1..Len(schema[i].fields) :
                ~ (/\ HoldsDict(record, schema[i])
                   /\ schema[i].fields[j].name
                        \in DOMAIN record.d[schema[i].name].d)

(***************************************************************************)
(* C5, as claimed.  After check_record_schema(record, schema, True) has    *)
(* returned, every STRING field of the schema is in the record, set to ''  *)
(* when it was absent, and under every RECORD field the record holds a     *)
(* sub-record with every field of the RECORD field in it, also when the    *)
(* sub-record was absent before the call.                                  *)
(***************************************************************************)
C5_DeclaredLeavesPresent ==
    (AfterCheck /\ sc_coerce /\ sc_exc = "none") =>
        /\ ~SomeLeafAbsent(sc_record, sc_schema)
        /\ \A i \in 1..Len(sc_schema) :
                (/\ sc_schema[i].field_type # "RECORD"
                 /\ sc_schema[i].name \notin DOMAIN sc_before.d)
                    => sc_record.d[sc_schema[i].name] = Str(EmptyStr)

(***************************************************************************)
(* C6.  A second check_record_schema in coerce mode, right after a first   *)
(* one on the same record and schema, leaves the record as the first call  *)
(* left it.                                                                *)
(***************************************************************************)
C6_SecondCheckChangesNothing ==
    (/\ Len(sc_ops) >= 2
     /\ sc_ops[Len(sc_ops)] = "check"
     /\ sc_ops[Len(sc_ops) - 1] = "check"
     /\ sc_coerce)
        => sc_record = sc_before

\* two calls in coerce mode were made, and the record holds a field that
\* the calls set to ''
C6_Witness ==
    /\ sc_ops = <<"check", "check">>
    /\ sc_coerce
    /\ sc_exc = "none"
    /\ \E k \in DOMAIN sc_record.d : sc_record.d[k] = Str(EmptyStr)

(***************************************************************************)
(* C7, as claimed.  check_record_schema raises MissingSchemaException if   *)
(* and only if coerce is false and some STRING field of the schema (at     *)
(* either depth) is absent from the record; it raises nothing else, and    *)
(* with coerce true it raises nothing, whatever the record holds under a   *)
(* RECORD field.                                                           *)
(***************************************************************************)
C7_RaisesIffStrictAndMissing ==
    AfterCheck =>
        /\ sc_coerce => sc_exc = "none"
        /\ sc_exc \in {"none", "MissingSchemaException"}
        /\ sc_exc = "MissingSchemaException"
                <=> (~sc_coerce /\ SomeLeafAbsent(sc_before, sc_schema))

(***************************************************************************)
(* C8.  drop_extra_keys removes no declared key: a key of the record that  *)
(* the schema names is still in the record after the call; its value is    *)
(* untouched unless it is a dict under a RECORD field, and then every key  *)
(* of that dict that the RECORD field's fields name is still in it with    *)
(* its value.                                                              *)
(***************************************************************************)
C8_DeclaredKeysKept ==
    AfterDrop =>
        \A i \in 1..Len(sc_schema) :
            LET f == sc_schema[i]
            IN  f.name \in DOMAIN sc_before.d =>
                    /\ f.name \in DOMAIN sc_record.d
                    /\ IF f.field_type = "RECORD" /\ HoldsDict(sc_before, f)
                       THEN /\ IsDict(sc_record.d[f.name])
                            /\ \A j \in 1..Len(f.fields) :
                                 LET k == f.fields[j].name
                                     old == sc_before.d[f.name].d
                                     new == sc_record.d[f.name].d
                                 IN  k \in DOMAIN old =>
                                        k \in DOMAIN new /\ new[k] = old[k]
                       ELSE sc_record.d[f.name] = sc_before.d[f.name]

\* a call pruned a dict held under a RECORD field and left a key in it
C8_Witness ==
    /\ AfterDrop
    /\ \E i \in 1..Len(sc_schema) :
            /\ sc_schema[i].field_type = "RECORD"
            /\ HoldsDict(sc_before, sc_schema[i])
            /\ sc_record.d[sc_schema[i].name] # sc_before.d[sc_schema[i].name]
            /\ DOMAIN sc_record.d[sc_schema[i].name].d # {}

(***************************************************************************)
(* C9, as claimed.  After drop_extra_keys with a non-empty schema the      *)
(* record has no key the schema does not name, and no dict it holds under  *)
(* a RECORD field has a key the fields of that field do not name; with an  *)
(* empty schema the record is unchanged.                                   *)
(***************************************************************************)
C9_NoUndeclaredKey ==
    AfterDrop =>
        /\ sc_schema = <<>> => sc_record = sc_before
        /\ sc_schema # <<>> =>
            /\ DOMAIN sc_record.d \subseteq FieldNames(sc_schema)
            /\ \A i \in 1..Len(sc_schema) :
                    (/\ sc_schema[i].field_type = "RECORD"
                     /\ HoldsDict(sc_record, sc_schema[i]))
                        => DOMAIN sc_record.d[sc_schema[i].name].d
                                \subseteq FieldNames(sc_schema[i].fields)

(***************************************************************************)
(* C9, as amended.  After drop_extra_keys with a non-empty schema the      *)
(* record has no key the schema does not name, and no dict it holds under  *)
(* a RECORD field that declares at least one field has a key those fields  *)
(* do not name; a dict under a RECORD field that declares no field is left *)
(* as it was; with an empty schema the record is unchanged.                *)
(***************************************************************************)
C9_NoUndeclaredKeyUnderFields ==
    AfterDrop =>
        /\ sc_schema = <<>> => sc_record = sc_before
        /\ sc_schema # <<>> =>
            /\ DOMAIN sc_record.d \subseteq FieldNames(sc_schema)
            /\ \A i \in 1..Len(sc_schema) :
                    (/\ sc_schema[i].field_type = "RECORD"
                     /\ HoldsDict(sc_record, sc_schema[i]))
                        => IF sc_schema[i].fields # <<>>
                           THEN DOMAIN sc_record.d[sc_schema[i].name].d
                                    \subseteq FieldNames(sc_schema[i].fields)
                           ELSE sc_record.d[sc_schema[i].name]
                                    = sc_before.d[sc_schema[i].name]

\* a call removed a key of the record and left the keys of a dict held
\* under a RECORD field that declares no field
C9_Witness ==
    /\ AfterDrop
    /\ DOMAIN sc_record.d # DOMAIN sc_before.d
    /\ \E i \in 1..Len(sc_schema) :
            /\ sc_schema[i].field_type = "RECORD"
            /\ sc_schema[i].fields = <<>>
            /\ HoldsDict(sc_record, sc_schema[i])
            /\ DOMAIN sc_record.d[sc_schema[i].name].d # {}

(***************************************************************************)
(* The user ids of the dumps, read off the column of each dump that holds  *)
(* the id of the user.                                                     *)
(***************************************************************************)
\* the values of the user id column of dump f
IdsOfDump(f) ==
    LET header == uic_dumps[f].header
        col == CHOOSE i \in 1..Len(header) : header[i] = UserIdColumn(f)
    IN  {uic_dumps[f].rows[r][col] : r \in 1..Len(uic_dumps[f].rows)}

PrimaryIds == IdsOfDump(UserFile)

MentionedIds == UNION {IdsOfDump(f) : f \in DOMAIN uic_dumps}

\* the lines written for user u
LinesOf(u) == {q \in 1..Len(uic_out) : uic_out[q]["user_id"] = u}

(***************************************************************************)
(* C10.  make_user_info_combo ends without error, and every non-empty user *)
(* id of any dump, primary or secondary, has exactly one line in the       *)
(* output, however many rows and dumps hold it; the line of a user that    *)
(* only secondary dumps hold has '' for username, email, is_staff,         *)
(* last_login and date_joined.                                             *)
(***************************************************************************)
C10_OneRecordPerUser ==
    /\ uic_pc # "raised"
    /\ uic_pc = "done" =>
        \A u \in MentionedIds \ {EmptyStr} :
            /\ Cardinality(LinesOf(u)) = 1
            /\ u \notin PrimaryIds =>
                \A q \in LinesOf(u) :
                    \A k \in {"username", "email", "is_staff", "last_login",
                               "date_joined"} :
                        uic_out[q][k] = EmptyStr

\* the report was written for a user of the primary dump and a user that
\* only a secondary dump holds
C10_Witness ==
    /\ uic_pc = "done"
    /\ Len(uic_out) = 2
    /\ \E u \in PrimaryIds : u # EmptyStr
    /\ \E u \in MentionedIds \ PrimaryIds : u # EmptyStr

(***************************************************************************)
(* C11, as claimed.  In the reports made from a tab-delimited dump          *)
(* (grades_persistent, student_module, user_info_combo) a field whose      *)
(* value is 'NULL' or 'null' is written as the empty string or as null,    *)
(* never as the text read, in every column.                                *)
(***************************************************************************)
C11_NullNormalised ==
    \A q \in 1..Len(tab_out) :
        LET read == tab_rows[tab_out[q].of].row
            written == tab_out[q].row
        IN  \A k \in DOMAIN read :
                read[k] \in {NULL, LowerNull} =>
                    written[k] \in {EmptyStr, None}

(***************************************************************************)
(* batch_decrypt_files.                                                    *)
(***************************************************************************)
\* the batches given to the pool so far, in order
Submitted == [i \in 1..Len(dec_tasks) |-> dec_tasks[i].work]

\* ceil(n / b)
CeilDiv(n, b) == (n + b - 1) \div b

(***************************************************************************)
(* C12.  For N paths and a batch size B >= 1, once batch_decrypt_files has *)
(* gone through _batch_them it has given the pool exactly ceil(N/B) tasks, *)
(* one per batch: every batch but the last has B paths, the last has       *)
(* between 1 and B, none is empty, and the batches concatenated in order   *)
(* are the input list.                                                     *)
(***************************************************************************)
C12_BatchesPartition ==
    dec_pc \in {"gather", "returned", "raised"} =>
        LET n == Len(dec_files)
            count == Len(Submitted)
        IN  /\ count = CeilDiv(n, dec_size)
            /\ \A i \in 1..count :
                    /\ Len(Submitted[i]) \in 1..dec_size
                    /\ i < count => Len(Submitted[i]) = dec_size
            /\ Concat(Submitted) = dec_files

\* every batch has been submitted, the last of several is short
C12_Witness ==
    /\ dec_pc = "gather"
    /\ Len(dec_files) > dec_size
    /\ Len(dec_files) % dec_size # 0
    /\ dec_size > 1

(***************************************************************************)
(* C13, as claimed.  When a batch fails, every other batch given to the    *)
(* pool is still run to its end (none is dropped from the queue), and the  *)
(* error batch_decrypt_files raises is the error of a batch that failed.   *)
(***************************************************************************)
C13_SiblingsStillRun ==
    /\ \A i \in 1..Len(dec_tasks) : dec_tasks[i].st # "dropped"
    /\ dec_pc = "raised" => dec_tasks[dec_exc].st = "failed"

(***************************************************************************)
(* C14, as claimed.  When batch_decrypt_files has returned or raised,      *)
(* every batch it gave to the pool has finished: none is queued, running   *)
(* or dropped.                                                             *)
(***************************************************************************)
C14_AllFinishedAtResume ==
    dec_pc \in {"returned", "raised"} =>
        Finished(dec_tasks) = 1..Len(dec_tasks)

(***************************************************************************)
(* C15, as claimed.  decrypt_file raises DecryptionError with the text gpg *)
(* wrote to stderr both when gpg exits with a non-zero code and when the   *)
(* wait for it times out, and returns True only when gpg exited with       *)
(* code 0.                                                                 *)
(***************************************************************************)
C15_DecryptionErrorOrTrue ==
    \A c \in 1..Len(em_calls) :
        LET run == em_calls[c].run
            result == em_calls[c].result
        IN  /\ (run.timed_out \/ run.code # 0) =>
                    /\ result.exc = "DecryptionError"
                    /\ Contains(result.text, Strip(run.stderr))
            /\ result.returned => (~run.timed_out /\ run.code = 0)

(***************************************************************************)
(* C16, as claimed.  When the user-info reports of a set of directories    *)
(* are made (one after the other in split_sql_files, one pool task per     *)
(* directory in batch_user_info_combos), the failure of one report is      *)
(* caught on its own: it does not leave the function, and no other         *)
(* directory's report is cancelled or skipped.                             *)
(***************************************************************************)
C16_ReportFailureIsolated ==
    bt_fn \in {SequentialLoop, "batch_user_info_combos"} =>
        /\ bt_pc # "raised"
        /\ \A i \in 1..Len(bt_tasks) : bt_tasks[i].st # "dropped"

(***************************************************************************)
(* C20, as claimed.  In process_sql_archive, batch_course_axes and         *)
(* batch_user_info_combos no two tasks of the pool have the same           *)
(* destination file open at the same time, and no destination file is      *)
(* opened by more than one task of the call, whatever list of archive      *)
(* entries or directories is given.                                        *)
(***************************************************************************)
C20_OneWriterPerFile ==
    bt_fn \in PoolFunctions =>
        /\ \A i, j \in Writing(bt_tasks) :
                bt_tasks[i].work.file = bt_tasks[j].work.file => i = j
        /\ \A i \in 1..Len(bt_tasks) :
                Cardinality(Opened(bt_tasks, bt_tasks[i].work.file)) <= 1

(***************************************************************************)
(* C17, as claimed.  In make_sql_tables the failure of one report          *)
(* generator (no grading policy in the archive, no course node in the      *)
(* structure) ends that report only: when make_sql_tables has returned or  *)
(* raised, every report generator of the sequence has been called for the  *)
(* directory.                                                              *)
(***************************************************************************)
C17_EveryMakerCalled ==
    tb_pc \in {"returned", "raised"} => tb_called = reports

(***************************************************************************)
(* C19, as claimed.  When wait_for_bq_jobs returns, every job of the list  *)
(* is done, whatever the order in which the jobs end.                      *)
(***************************************************************************)
C19_AllJobsDoneAtReturn ==
    jb_pc = "returned" => \A j \in 1..Len(jb_jobs) : jb_jobs[j]

\* the archive is one that failed: a function split_sql_files calls for it
\* raises
ArchiveFails(a) ==
    \/ a.split = "raises"
    \/ ~sp_no_decryption /\ (a.decrypt = "raises" \/ a.fails # 0)

C21_RaisesIffNoCourseNode ==
    LET absent == \A i \in 1..Len(structure) : structure[i].category # Course
    IN  /\ axis_pc # "load" =>
                (axis_exc = "BadSQLFileException" <=> absent)
        /\ axis_exc # "none" => ~axis_file /\ zh = <<>>

\* metadata.get(key) of node k of the chain, or of its parent when node k
\* has no such key, or empty
Inherited(k, key, empty) ==
    LET own == structure[k].metadata
    IN  IF key \in DOMAIN own THEN own[key]
        ELSE IF k > 1 /\ key \in DOMAIN structure[k - 1].metadata
             THEN structure[k - 1].metadata[key]
             ELSE empty

(***************************************************************************)
(* C22, as claimed.  In the list process_course_structure returns, each    *)
(* of due, start, format, weight and graded of a record is the value of    *)
(* the node's own metadata when it has the key, otherwise the value of     *)
(* the metadata of the node's immediate parent, otherwise empty; the       *)
(* metadata of a deeper ancestor is never used.                            *)
(***************************************************************************)
C22_OwnThenParentMetadata ==
    axis_pc \in {"writing", "done"} =>
        \A k \in 1..Len(data) :
            /\ data[k].gformat = Inherited(k, "format", EmptyStr)
            /\ data[k].due = Inherited(k, "due", EmptyStr)
            /\ data[k].start = Inherited(k, "start", EmptyStr)
            /\ data[k].graded = Inherited(k, "graded", FALSE)
            /\ data[k].weight = Inherited(k, "weight", None)

(***************************************************************************)
(* C23, as claimed.  In the list process_course_structure returns,         *)
(* is_split is true exactly when the node's own category or its parent's   *)
(* category contains 'split_test'; split_url_name is null when is_split    *)
(* is false, the node's own url_name when the node's own category is the   *)
(* split definition, and the parent's url_name otherwise.                  *)
(***************************************************************************)
C23_SplitUrlName ==
    axis_pc \in {"writing", "done"} =>
        \A k \in 1..Len(data) :
            LET own == Contains(structure[k].category, SPLIT_TEST)
                par == k > 1 /\ Contains(structure[k - 1].category,
                                         SPLIT_TEST)
            IN  /\ data[k].is_split <=> (own \/ par)
                /\ data[k].split_url_name =
                        IF own THEN data[k].url_name
                        ELSE IF par THEN data[k - 1].url_name
                        ELSE None

\* the text of the block id after 'i4x://'
AfterPrefix(block) == SubSeq(block, Len(I4X_PREFIX) + 1, Len(block))

\* the text of the segment after its '@'
AfterAt(segment) ==
    LET at == {i \in 1..Len(segment) : segment[i] = "@"}
    IN  IF at = {} THEN segment
        ELSE SubSeq(segment, (CHOOSE i \in at : \A j \in at : j <= i) + 1,
                    Len(segment))

(***************************************************************************)
(* C24, as claimed.  module_from_block of a legacy block id 'i4x://' + s   *)
(* is s, whatever the first characters of s; of a modern block id it is    *)
(* the '+'-delimited segments after the last ':', each without its text    *)
(* up to and including '@', joined by '/'.                                 *)
(***************************************************************************)
C24_ModuleFromBlock ==
    axis_pc \in {"writing", "done"} =>
        \A k \in 1..Len(data) :
            LET block == structure[k].block
                segments == Split(Last(Split(block, <<":">>, -1)), <<"+">>,
                                  -1)
            IN  data[k].module_id =
                    IF StartsWith(block, I4X_PREFIX) THEN AfterPrefix(block)
                    ELSE Join([i \in 1..Len(segments) |->
                                    AfterAt(segments[i])], <<"/">>)

\* the value a line gives to the column (to its sub-column, for a pair)
ColumnIn(line, c) ==
    IF c.subcol = "" THEN GetValue(line, c.col)
    ELSE IF GetValue(line, c.col).t = "dict"
    THEN GetValue(line[c.col].d, c.subcol)
    ELSE NoneValue

\* the value the record written holds for the column
ColumnOut(record, c) ==
    IF c.subcol = "" THEN record[c.col] ELSE record[c.col].d[c.subcol]

\* the value is a list of sub-documents that hold the envelope sub-field
EnvelopeList(v, subkey) ==
    /\ v.t = "list"
    /\ \A i \in 1..Len(v.l) : v.l[i].t = "dict" /\ subkey \in DOMAIN v.l[i].d

(***************************************************************************)
(* C25.  In every record make_forum_table writes, a field declared under   *)
(* an envelope ($oid or $date) whose value is a list of sub-documents      *)
(* holds the JSON text of the list of the envelope sub-fields of the       *)
(* entries, in order; a field whose value is one sub-document holds that   *)
(* sub-document's envelope sub-field; and mongoid is the extracted _id.    *)
(***************************************************************************)
C25_EnvelopeExtracted ==
    \A e \in 1..Len(fo_out) :
        LET line == fo_lines[fo_out[e].of]
            record == fo_out[e].record
        IN  /\ record["mongoid"] = record["_id"]
            /\ \A i \in 1..Len(cols) :
                LET c == cols[i]
                    v == ColumnIn(line, c)
                IN  c.subkey # "" =>
                        /\ EnvelopeList(v, c.subkey) =>
                                ColumnOut(record, c) =
                                    Str(json_dumps(List(
                                        [j \in 1..Len(v.l) |->
                                            v.l[j].d[c.subkey]])))
                        /\ v.t = "dict" /\ c.subkey \in DOMAIN v.d =>
                                ColumnOut(record, c) = v.d[c.subkey]

C25_Witness ==
    \E e \in 1..Len(fo_out) :
        LET line == fo_lines[fo_out[e].of]
        IN  /\ GetValue(line, "parent_ids").t = "list"
            /\ Len(line["parent_ids"].l) = 2
            /\ line["_id"].t = "dict"
            /\ fo_out[e].record["mongoid"] = Str(<<"i">>)

(***************************************************************************)
(* C26, as claimed.  In every record make_forum_table writes no declared   *)
(* field holds a list or a map, and each declared field whose value was    *)
(* the literal 'NULL' is null.                                             *)
(***************************************************************************)
C26_NoListOrMap ==
    \A e \in 1..Len(fo_out) :
        LET line == fo_lines[fo_out[e].of]
            record == fo_out[e].record
        IN  \A i \in 1..Len(cols) :
                LET col == cols[i].col
                IN  col \in DOMAIN record =>
                        /\ record[col].t \notin {"list", "dict"}
                        /\ (col \in DOMAIN line /\ line[col] = Str(NULL))
                                => record[col] = NoneValue

(***************************************************************************)
(* C26, amended.  In every record make_forum_table writes no declared      *)
(* field holds a list and no declared field that is a map holds a list as  *)
(* the value of one of its keys (the map itself is kept), and each         *)
(* declared field whose value was the literal 'NULL' is null.              *)
(***************************************************************************)
C26_NoListLeft ==
    \A e \in 1..Len(fo_out) :
        LET line == fo_lines[fo_out[e].of]
            record == fo_out[e].record
        IN  \A i \in 1..Len(cols) :
                LET col == cols[i].col
                IN  col \in DOMAIN record =>
                        /\ record[col].t # "list"
                        /\ record[col].t = "dict" =>
                                \A k \in DOMAIN record[col].d :
                                    record[col].d[k].t # "list"
                        /\ (col \in DOMAIN line /\ line[col] = Str(NULL))
                                => record[col] = NoneValue

C26_Witness ==
    \E e, f \in 1..Len(fo_out) :
        /\ GetValue(fo_lines[fo_out[e].of], "votes").t = "dict"
        /\ "up" \in DOMAIN fo_out[e].record["votes"].d
        /\ fo_out[e].record["votes"].d["up"].t = "str"
        /\ GetValue(fo_lines[fo_out[f].of], "body") = Str(NULL)
        /\ fo_out[f].record["body"] = NoneValue

\* the bytes of the file members of the archive up to the i-th
RECURSIVE BytesUpTo(_)
BytesUpTo(i) ==
    IF i = 0 THEN 0 ELSE BytesUpTo(i - 1) + em_members[i].size

(***************************************************************************)
(* C28, as claimed.  In process_email_file decrypt_file is called exactly  *)
(* once for every member that is no directory, after all bytes of the      *)
(* member have been written to the file out and before any byte of the     *)
(* next member is read; after a decryption failure no later member is      *)
(* read.                                                                   *)
(***************************************************************************)
C28_DecryptAfterEachMember ==
    /\ \A i \in 1..Len(em_members) :
            (i < em_next /\ ~em_members[i].is_dir) =>
                Cardinality({c \in 1..Len(em_calls) :
                                em_calls[c].member = i}) = 1
    /\ \A c \in 1..Len(em_calls) :
            LET i == em_calls[c].member
            IN  /\ ~em_members[i].is_dir
                /\ em_calls[c].disk = BytesUpTo(i)
                /\ \A j \in 1..Len(em_members) :
                        em_calls[c].read[j] =
                            IF j <= i THEN em_members[j].size ELSE 0
    /\ em_pc = "raised" =>
            \A j \in 1..Len(em_members) : j >= em_next => em_read[j] = 0

\* the paths of the entries of the archive from the i-th on that the
\* naming convention gives a target for, in the order of the archive
RECURSIVE TargetPaths(_)
TargetPaths(i) ==
    IF i > Len(bt_items) THEN <<>>
    ELSE (IF bt_items[i] = SkippedEntry THEN <<>>
          ELSE <<<<DestDir, format_sql_filename(bt_items[i])>>>>)
            \o TargetPaths(i + 1)

(***************************************************************************)
(* C27.  process_sql_archive returns the target paths of the entries of    *)
(* the archive that the naming convention gives a target for, one path     *)
(* per such entry and in the order of the archive, whatever the order in   *)
(* which the workers end; an entry without target has opened no file and   *)
(* adds nothing to the list.                                               *)
(***************************************************************************)
C27_TargetsInArchiveOrder ==
    bt_fn = "process_sql_archive" =>
        /\ bt_pc = "returned" => bt_out = TargetPaths(1)
        /\ \A i \in 1..Len(bt_tasks) :
                bt_items[i] = SkippedEntry =>
                    bt_tasks[i].st \notin {"writing", "failed_writing"}

\* the list returned holds two paths, and the entry between them was
\* skipped
C27_Witness ==
    /\ bt_fn = "process_sql_archive"
    /\ bt_pc = "returned"
    /\ Len(bt_items) = 3
    /\ bt_items[2] = SkippedEntry
    /\ Len(bt_out) = 2
    /\ bt_out[1] # bt_out[2]

\* data after the rows i.. of a dump
RECURSIVE roles_rows(_, _, _)
roles_rows(acc, rows, i) ==
    IF i > Len(rows) THEN acc
    ELSE roles_rows(roles_row(acc, rows[i]), rows, i + 1)

\* the records by user id that make_roles_table writes when it reads the
\* dumps in the given order
RolesTable(order) ==
    LET first == roles_rows(<<>>, ro_dumps[order[1]], 1)
        both == roles_rows(first, ro_dumps[order[2]], 1)
    IN  [u \in DOMAIN both |-> roles_final(both[u])]

\* the records written, by user id
Written == [u \in Range(ro_keys) |->
               LET i == CHOOSE j \in 1..Len(ro_out) : ro_out[j].user_id = u
               IN  ro_out[i]]

\* the rows read so far
RowsRead ==
    {ro_dumps[ro_order[f]][i] : <<f, i>> \in
        {p \in (1..Len(ro_order)) \X (1..MaxRows) :
            /\ p[2] <= Len(ro_dumps[ro_order[p[1]]])
            /\ \/ p[1] < ro_file
               \/ p[1] = ro_file /\ p[2] < ro_next}}

\* every flag is 0 or 1, the flag of a row that was read is 1, and a
\* record written with a roles_* flag set is classified 'Staff'
FlagsKept ==
    /\ \A u \in DOMAIN ro_data : \A k \in RoleFlags : ro_data[u][k] \in {0, 1}
    /\ \A r \in RowsRead :
            roles_get(r.role) # "None" => ro_data[r.user_id][roles_get(r.role)] = 1
    /\ \A i \in 1..Len(ro_out) :
            /\ \A k \in RoleFlags : ro_out[i][k] \in {0, 1}
            /\ (\E k \in StaffFlags : ro_out[i][k] = 1)
                    => ro_out[i].roles = STAFF

\* C29: the records written by make_roles_table are, user by user, those it
\* writes when the two dumps are read in the other order; every flag is 0
\* or 1, a flag once set stays set, and a user with a roles_* flag set is
\* classified 'Staff'.
C29_OrderIndependent ==
    /\ FlagsKept
    /\ ro_pc = "done" => Written = RolesTable(Reverse(ro_order))

\* the part of C29 that does not compare the two orders
C29_FlagsOnly == FlagsKept

\* the flags alone do not depend on the order of the dumps
C29_FlagsSameInEitherOrder ==
    ro_pc = "done" =>
        LET other == RolesTable(Reverse(ro_order))
        IN  /\ DOMAIN other = DOMAIN Written
            /\ \A u \in DOMAIN other : \A k \in RoleFlags :
                    other[u][k] = Written[u][k]

\* the users whose output row has a user id or a certificate-holder id
WithId ==
    {i \in 1..Len(users.order) :
        ~NoId(OutRow(users.map[users.order[i]], OutCols))}

\* the run has not raised, the output columns are those built before the
\* loop, and at the end one line was written for every user with an id
CompletesUnchanged ==
    /\ uic_exc = "none"
    /\ uic_pc \in {"write", "done"} => outcols = OutCols
    /\ uic_pc = "done" => Len(uic_out) = Cardinality(WithId)

\* C30: with any schema that is not empty, also one that does not declare
\* every output column, make_user_info_combo completes and writes one line
\* for every user record that has a user id or a certificate-holder id:
\* the pruning step at the end of an iteration never raises and leaves the
\* list of output columns as it is.
C30_CompletesForEverySchema == uic_schema # <<>> => CompletesUnchanged

\* the same with the schema that declares every output column
C30_CompletesWithFullSchema == uic_schema = FullSchema => CompletesUnchanged

====
